---- MODULE Spec2Model ----
(***************************************************************************)
(* Model of the text perturbation transform of part-1-code/utils.py        *)
(* (custom_transform and its helpers) over the process-wide pseudo-random  *)
(* stream and the memoized synonym lookup, of the augmented training set   *)
(* of part-1-code/main.py, of the training loops of part-1-code/main.py    *)
(* and part-2-code/train_t5.py, and of the collate function and the SQL    *)
(* extraction of part-2-code.                                              *)
(*                                                                         *)
(* A string is a sequence of characters; a character is a one-symbol name  *)
(* ("a", "A", ".", " "); "o_circ" / "O_CIRC" stand for one alphabetic      *)
(* character outside the QWERTY table (o with circumflex).                 *)
(***************************************************************************)
EXTENDS Integers, Sequences, FiniteSets, TLC

\* ------------------------------------------------------------------------
\* State
\* ------------------------------------------------------------------------
VARIABLES
  rng,         \* state of the global pseudo-random stream
  cache,       \* the lru_cache of _cached_synonyms
  example,     \* the example dict the call was given (updated in place)
  pc,          \* "idle", "loop", "typo", "done", "raised"
  tokens,      \* word_tokenize(text)
  i,           \* index of the token the main loop is at (1-based)
  tok,         \* the loop variable tok
  new_tokens,  \* the list new_tokens
  input,       \* history: the example as it was given
  seed0,       \* history: the seed the stream was started from
  log,         \* history: what was done to each token, aligned with tokens
  step,        \* history: number of steps taken
  calls,       \* history: number of calls started
  first,       \* history: the example returned by the previous call
  \* main.py, create_augmented_dataloader
  dataset,           \* dataset["train"], the rows of the training split
  sampled_raw,       \* the rows selected after the shuffle, as row indices
  transformed_raw,   \* the rows map(custom_transform) has written so far
  augmented_raw,     \* concatenate_datasets([train_raw, transformed_raw])
  train_dataloader,  \* the DataLoader returned
  \* train_t5.py, train
  args,                      \* max_n_epochs, patience_epochs, eval_every
  epoch,                     \* the loop variable of train
  best_f1,
  epochs_since_improvement,
  checkpoints,               \* the weights each checkpoint file holds
  model,                     \* the weights of the model: the epoch they were
                             \* trained in (-1: none yet, -2: of an earlier run)
  \* load_data.py, normal_collate_fn
  batch,                     \* the list of (enc_ids, tgt_ids) the loader hands over
  collated,                  \* the tuple returned
  \* prompting_utils.py, extract_sql_query
  response,                  \* the response of the model, a str or None
  extracted_query,           \* the str returned
  \* main.py, do_train and train_t5.py, train_epoch
  grads                      \* the batches whose gradients p.grad accumulates

\* The state of one call of custom_transform
callVars == << example, tokens, i, tok, new_tokens, calls, first >>

mainVars == << dataset, sampled_raw, transformed_raw, augmented_raw, train_dataloader >>

trainVars == << args, epoch, best_f1, epochs_since_improvement, checkpoints, model >>

\* The state of the functions of part-2-code that stand alone
moreVars == << batch, collated, response, extracted_query, grads >>

\* What utils.py does not touch
restVars == << mainVars, trainVars, moreVars >>

vars == << rng, cache, example, pc, tokens, i, tok, new_tokens,
           input, seed0, log, step, calls, first, restVars >>

\* create_augmented_dataloader not called
MainIdle ==
  /\ dataset = <<>>
  /\ sampled_raw = <<>>
  /\ transformed_raw = <<>>
  /\ augmented_raw = <<>>
  /\ train_dataloader = <<>>

\* train not called
TrainIdle ==
  /\ args = <<>>
  /\ epoch = 0
  /\ best_f1 = -1
  /\ epochs_since_improvement = 0
  /\ checkpoints = <<>>
  /\ model = -1

\* the stand-alone functions of part-2-code not called
MoreIdle ==
  /\ batch = <<>>
  /\ collated = <<>>
  /\ response = <<>>
  /\ extracted_query = <<>>
  /\ grads = {}

RestIdle == MainIdle /\ TrainIdle /\ MoreIdle

\* ------------------------------------------------------------------------
\* Characters and Python's str predicates
\* ------------------------------------------------------------------------

\* Python's None
None == "None"

LowerLetters ==
  << "a", "b", "c", "d", "e", "f", "g", "h", "i", "j", "k", "l", "m",
     "n", "o", "p", "q", "r", "s", "t", "u", "v", "w", "x", "y", "z", "o_circ" >>

UpperLetters ==
  << "A", "B", "C", "D", "E", "F", "G", "H", "I", "J", "K", "L", "M",
     "N", "O", "P", "Q", "R", "S", "T", "U", "V", "W", "X", "Y", "Z", "O_CIRC" >>

\* The other characters of the model, in code point order up to "?" and "_".
OtherChars == << " ", "!", "'", ",", ".", "/", "1", "<", ">", "?", "_" >>

Range(seq) == { seq[k] : k \in 1..Len(seq) }

IndexIn(seq, x) == CHOOSE k \in 1..Len(seq) : seq[k] = x

\* All characters in code point order (str comparison, used by sorted()).
CodePointOrder ==
  SubSeq(OtherChars, 1, 10) \o SubSeq(UpperLetters, 1, 26) \o <<"_">>
    \o SubSeq(LowerLetters, 1, 26) \o <<"O_CIRC", "o_circ">>

CodePoint(c) == IndexIn(CodePointOrder, c)

\* ch.isupper() / ch.islower() / ch.isalpha() / ch.lower() / ch.upper()
IsUpperCh(c) == c \in Range(UpperLetters)
IsLowerCh(c) == c \in Range(LowerLetters)
IsAlphaCh(c) == IsUpperCh(c) \/ IsLowerCh(c)
LowerCh(c) == IF IsUpperCh(c) THEN LowerLetters[IndexIn(UpperLetters, c)] ELSE c
UpperCh(c) == IF IsLowerCh(c) THEN UpperLetters[IndexIn(LowerLetters, c)] ELSE c

\* s.lower() / s.upper() / s.capitalize() / s.isalpha() / s.isupper()
Lower(s) == [k \in 1..Len(s) |-> LowerCh(s[k])]
Upper(s) == [k \in 1..Len(s) |-> UpperCh(s[k])]
Capitalize(s) == [k \in 1..Len(s) |-> IF k = 1 THEN UpperCh(s[k]) ELSE LowerCh(s[k])]
IsAlpha(s) == Len(s) > 0 /\ \A k \in 1..Len(s) : IsAlphaCh(s[k])
IsUpper(s) ==
  /\ \E k \in 1..Len(s) : IsUpperCh(s[k])
  /\ \A k \in 1..Len(s) : ~IsLowerCh(s[k])

\* Python's str ordering: s < t, code point by code point.
RECURSIVE StrLess(_, _)
StrLess(s, t) ==
  IF t = <<>> THEN FALSE
  ELSE IF s = <<>> THEN TRUE
  ELSE IF s[1] # t[1] THEN CodePoint(s[1]) < CodePoint(t[1])
  ELSE StrLess(Tail(s), Tail(t))

Abs(x) == IF x < 0 THEN -x ELSE x

\* ------------------------------------------------------------------------
\* Process-wide constants of utils.py
\* ------------------------------------------------------------------------

\* QWERTY_NEIGHBORS.get(lower): the neighbor string, <<>> when there is no entry
QwertyNeighbors(c) ==
  CASE c = "q" -> <<"w">>
    [] c = "w" -> <<"q", "e", "s">>
    [] c = "e" -> <<"w", "r", "d">>
    [] c = "r" -> <<"e", "t", "f">>
    [] c = "t" -> <<"r", "y", "g">>
    [] c = "y" -> <<"t", "u", "h">>
    [] c = "u" -> <<"y", "i", "j">>
    [] c = "i" -> <<"u", "o", "j">>
    [] c = "o" -> <<"i", "p", "k">>
    [] c = "p" -> <<"o">>
    [] c = "a" -> <<"s", "q", "w", "z">>
    [] c = "s" -> <<"a", "w", "e", "d", "x", "z">>
    [] c = "d" -> <<"s", "e", "r", "f", "c", "x">>
    [] c = "f" -> <<"d", "r", "t", "g", "v">>
    [] c = "g" -> <<"f", "t", "y", "h", "b">>
    [] c = "h" -> <<"g", "y", "u", "j", "n">>
    [] c = "j" -> <<"h", "u", "i", "k", "m">>
    [] c = "k" -> <<"j", "i", "o", "l">>
    [] c = "l" -> <<"k", "o", "p">>
    [] c = "z" -> <<"a", "s", "x">>
    [] c = "x" -> <<"z", "s", "d", "c">>
    [] c = "c" -> <<"x", "d", "f", "v">>
    [] c = "v" -> <<"c", "f", "g", "b">>
    [] c = "b" -> <<"v", "g", "h", "n">>
    [] c = "n" -> <<"b", "h", "j", "m">>
    [] c = "m" -> <<"n", "j", "k">>
    [] OTHER -> <<>>

\* A part of nltk's English stopword list (all entries are lower case).
STOPWORDS ==
  { <<"t","h","e">>, <<"i","s">>, <<"a">>, <<"a","n","d">>, <<"w","a","s">>,
    <<"t","h","i","s">> }

\* The html-like tokens the main loop preserves.
HtmlTokens ==
  { <<"<">>, <<">">>, <<"/",">">>, <<"<","b","r">>, <<"b","r">>, <<"b","r","/">> }

\* p_syn = 0.5 and p_typo_word = 0.2 as fractions
p_syn_num == 1
p_syn_den == 2
p_typo_num == 1
p_typo_den == 5
min_token_len == 3
TopK == 5

\* lru_cache(maxsize=100_000)
CacheMaxSize == 100000

\* ------------------------------------------------------------------------
\* The global pseudo-random stream (module random): one integer of state,
\* advanced by every call; the value of a call is a function of the state.
\* ------------------------------------------------------------------------
RngModulus == 2048
RngMul == 1229
RngInc == 1663

\* random.seed(k)
Seed(k) == k % RngModulus

RngNext(s) == (RngMul * s + RngInc) % RngModulus

\* A draw from a generator the seed does not control
RandomLessUnseeded(s, num, den) ==
  [hit |-> RngNext(s + calls) * den < num * RngModulus, rng |-> RngNext(s)]

\* random.random() < num/den, and the stream state after the call
RandomLess(s, num, den) ==
  LET u == RngNext(s)
  IN  [hit |-> u * den < num * RngModulus, rng |-> u]

\* random.choice(seq); raises IndexError on an empty sequence
RandomChoice(seq, s) ==
  IF Len(seq) = 0
  THEN [err |-> TRUE, val |-> None, rng |-> s]
  ELSE LET u == RngNext(s)
       IN  [err |-> FALSE, val |-> seq[((u * Len(seq)) \div RngModulus) + 1], rng |-> u]

\* ------------------------------------------------------------------------
\* The lexical resource and the memoized lookup
\* ------------------------------------------------------------------------

\* wordnet.synsets(w), flattened to the lemma names l.name() in synset order.
\* The resource is an external collaborator; this table stands for it.
WordNetLemmaNames(w) ==
  CASE w = <<"g","r","e","a","t">> ->
         << <<"g","r","e","a","t">>, <<"b","i","g">>, <<"s","w","e","l","l">>,
            <<"n","e","a","t">>, <<"b","a","n","g","_","u","p">>, <<"b","i","g">> >>
    [] w = <<"f","u","n">> ->
         << <<"f","u","n">>, <<"m","e","r","r","i","m","e","n","t">>,
            <<"p","l","a","y","f","u","l","n","e","s","s">>, <<"p","l","a","y">>,
            <<"s","p","o","r","t">>, <<"a","m","u","s","i","n","g">>,
            <<"a","m","u","s","i","v","e">> >>
    [] w = <<"b","i","b","l","e">> ->
         << <<"B","i","b","l","e">>, <<"C","h","r","i","s","t","i","a","n","_","B","i","b","l","e">>,
            <<"B","o","o","k">>, <<"G","o","o","d","_","B","o","o","k">>,
            <<"S","c","r","i","p","t","u","r","e">>, <<"W","o","r","d">> >>
    [] w = <<"r","o","l","e">> ->
         << <<"r","o","l","e">>, <<"r","o_circ","l","e">>, <<"p","a","r","t">>,
            <<"f","u","n","c","t","i","o","n">> >>
    [] w = <<"f","i","l","m">> ->
         << <<"f","i","l","m">>, <<"m","o","v","i","e">>, <<"p","i","c">>,
            <<"f","l","i","c","k">>, <<"p","i","c","t","u","r","e","_","s","h","o","w">> >>
    [] OTHER -> <<>>

\* l.name().replace("_", " ")
ReplaceUnderscore(name) == [k \in 1..Len(name) |-> IF name[k] = "_" THEN " " ELSE name[k]]

\* sorted(S) for a set of strings
RECURSIVE SortedStrings(_)
SortedStringsFrom(S, m) == <<m>> \o SortedStrings(S \ {m})

SortedStrings(S) ==
  IF S = {} THEN <<>>
  ELSE SortedStringsFrom(S, CHOOSE x \in S : \A y \in S \ {x} : StrLess(x, y))

\* A filter that keeps the word itself
FilterLemmasKeepSelf(names, lower_word) ==
  { c \in { ReplaceUnderscore(names[k]) : k \in 1..Len(names) } : IsAlpha(c) }

\* The filter of _cached_synonyms on the lemma names `names`
FilterLemmas(names, lower_word) ==
  { c \in { ReplaceUnderscore(names[k]) : k \in 1..Len(names) } :
      IsAlpha(c) /\ Lower(c) # lower_word }

\* The body of _cached_synonyms: the alphabetic lemmas that differ from the
\* word case-insensitively, de-duplicated and sorted.
ComputeSynonyms(lower_word) ==
  SortedStrings(FilterLemmas(WordNetLemmaNames(lower_word), lower_word))

\* The lru_cache around it. The cache is a sequence of <<key, value>> pairs,
\* least recently used first.
CacheHas(c, w) == \E k \in 1..Len(c) : c[k][1] = w

\* A hit that answers with the candidates stored last, whatever the word
CacheHitLatest(c, k) ==
  [val |-> c[Len(c)][2],
   cache |-> SubSeq(c, 1, k - 1) \o SubSeq(c, k + 1, Len(c)) \o <<c[k]>>]

CacheHit(c, k) ==
  [val |-> c[k][2],
   cache |-> SubSeq(c, 1, k - 1) \o SubSeq(c, k + 1, Len(c)) \o <<c[k]>>]

\* A cache without a size limit: a miss never evicts
CacheMissUnbounded(c, lower_word, v) ==
  [val |-> v, cache |-> Append(c, <<lower_word, v>>)]

CacheMiss(c, lower_word, v) ==
  [val |-> v,
   cache |-> Append(IF Len(c) >= CacheMaxSize THEN Tail(c) ELSE c, <<lower_word, v>>)]

CachedSynonyms(lower_word, c) ==
  IF CacheHas(c, lower_word)
  THEN CacheHit(c, CHOOSE j \in 1..Len(c) : c[j][1] = lower_word)
  ELSE CacheMiss(c, lower_word, ComputeSynonyms(lower_word))

\* ------------------------------------------------------------------------
\* Helpers of custom_transform
\* ------------------------------------------------------------------------

\* A match_case without the title-case branch
MatchCaseUpperOnly(src, tgt) == IF IsUpper(src) THEN Upper(tgt) ELSE tgt

MatchCase(src, tgt) ==
  IF IsUpper(src) THEN Upper(tgt)
  ELSE IF IsUpperCh(src[1]) THEN Capitalize(tgt)
  ELSE tgt

Max(a, b) == IF a > b THEN a ELSE b
Min(a, b) == IF a < b THEN a ELSE b

\* sorted(lemmas, key=lambda w: abs(len(w) - n)): a stable sort
RECURSIVE StableByLenDiff(_, _, _, _)
StableByLenDiff(lemmas, n, d, maxd) ==
  IF d > maxd THEN <<>>
  ELSE SelectSeq(lemmas, LAMBDA w : Abs(Len(w) - n) = d)
         \o StableByLenDiff(lemmas, n, d + 1, maxd)

RECURSIVE MaxLenDiff(_, _)
MaxLenDiff(lemmas, n) ==
  IF lemmas = <<>> THEN 0
  ELSE Max(Abs(Len(Head(lemmas)) - n), MaxLenDiff(Tail(lemmas), n))

SortedByLenDiff(lemmas, n) == StableByLenDiff(lemmas, n, 0, MaxLenDiff(lemmas, n))

Prefix(seq, k) == SubSeq(seq, 1, Min(k, Len(seq)))

\* "Plan B" of get_synonym: every candidate, whatever its length
TopKAll(lemmas, n) == lemmas

\* topk = sorted(...)[:5]
TopKClosest(lemmas, n) == Prefix(SortedByLenDiff(lemmas, n), TopK)

\* get_synonym returns None: found = FALSE
NoSynonym(look, s) ==
  [found |-> FALSE, syn |-> <<>>, lemmas |-> look.val, cache |-> look.cache,
   rng |-> s, err |-> FALSE]

\* return random.choice(topk)
PickedSynonym(look, pick) ==
  [found |-> ~pick.err, syn |-> IF pick.err THEN <<>> ELSE pick.val,
   lemmas |-> look.val, cache |-> look.cache, rng |-> pick.rng, err |-> pick.err]

\* random.choice(topk) if topk else None
ChooseSynonym(look, topk, s) ==
  IF topk = <<>> THEN NoSynonym(look, s)
  ELSE PickedSynonym(look, RandomChoice(topk, s))

\* get_synonym after the lookup `look` of the lowercase token of length n
GetSynonymFrom(look, n, s) ==
  IF look.val = <<>> THEN NoSynonym(look, s)
  ELSE ChooseSynonym(look, TopKClosest(look.val, n), s)

\* get_synonym
GetSynonym(token, c, s) ==
  GetSynonymFrom(CachedSynonyms(Lower(token), c), Len(Lower(token)), s)

\* A pick that never matches the casing of ch
CasedLower(ch, pick) ==
  [ch |-> IF pick.err THEN None ELSE pick.val, rng |-> pick.rng, err |-> pick.err]

\* return new_ch.upper() if ch.isupper() else new_ch
CasedLike(ch, pick) ==
  [ch |-> IF pick.err THEN None
          ELSE IF IsUpperCh(ch) THEN UpperCh(pick.val) ELSE pick.val,
   rng |-> pick.rng, err |-> pick.err]

\* A pick without the guard on a missing table entry
PickFromUnguarded(ch, neigh, s) == CasedLike(ch, RandomChoice(neigh, s))

\* neigh = QWERTY_NEIGHBORS.get(lower); if not neigh: return None
PickFrom(ch, neigh, s) ==
  IF neigh = <<>> THEN [ch |-> None, rng |-> s, err |-> FALSE]
  ELSE CasedLike(ch, RandomChoice(neigh, s))

\* _pick_neighbor_like: ch = None when there is no neighbor
PickNeighborLike(ch, s) == PickFrom(ch, QwertyNeighbors(LowerCh(ch)), s)

\* The result of inject_typo: the word returned, the stream state, whether an
\* exception was raised, and the operation that produced the word: "short"
\* (early return), "delete", "insert", "substitute" or "noop"; pos is the
\* 0-based index chosen, so word[pos] is word[pos + 1] here.  The other fields
\* keep the history of the call: tried lists the operations entered in order,
\* ch is the neighbor that was inserted or substituted, base the 0-based index
\* of the character it was picked for, at its 0-based index in the result.
TypoOut(word, s, err, op, pos) ==
  [word |-> word, rng |-> s, err |-> err, op |-> op, pos |-> pos,
   tried |-> <<>>, ch |-> None, base |-> -1, at |-> -1]

\* The history of a result that placed the neighbor ch, picked for word[base]
Placed(out, ch, base, at) == [out EXCEPT !.ch = ch, !.base = base, !.at = at]

\* The history of a result reached after the operation op was given up
After(op, out) == [out EXCEPT !.tried = <<op>> \o @]

\* return word[:pos] + sub_ch + word[pos + 1:], or the no-op when sub_ch == ch
TypoSubstituteWith(word, pos, sub_ch, s) ==
  IF sub_ch = word[pos + 1] THEN TypoOut(word, s, FALSE, "noop", pos)
  ELSE Placed(TypoOut(SubSeq(word, 1, pos) \o <<sub_ch>> \o SubSeq(word, pos + 2, Len(word)),
                      s, FALSE, "substitute", pos),
              sub_ch, pos, pos)

\* if sub_ch == ch: alt = _pick_neighbor_like(ch); if alt is not None: sub_ch = alt
TypoSubstituteRetry(word, pos, sub1, alt) ==
  IF alt.err THEN TypoOut(word, alt.rng, TRUE, "noop", pos)
  ELSE TypoSubstituteWith(word, pos, IF alt.ch # None THEN alt.ch ELSE sub1.ch, alt.rng)

\* sub_ch = _pick_neighbor_like(ch); if sub_ch is None: return word
TypoSubstitutePicked(word, pos, sub1) ==
  IF sub1.err THEN TypoOut(word, sub1.rng, TRUE, "noop", pos)
  ELSE IF sub1.ch = None THEN TypoOut(word, sub1.rng, FALSE, "noop", pos)
  ELSE IF sub1.ch = word[pos + 1]
  THEN TypoSubstituteRetry(word, pos, sub1, PickNeighborLike(word[pos + 1], sub1.rng))
  ELSE TypoSubstituteWith(word, pos, sub1.ch, sub1.rng)

\* --- SUBSTITUTE (default/fallback) ---
TypoSubstitute(word, pos, s) ==
  After("substitute", TypoSubstitutePicked(word, pos, PickNeighborLike(word[pos + 1], s)))

\* An insertion that puts the neighbor on both sides of the position
TypoInsertTwice(word, pos, insert_ch, after) ==
  Placed(TypoOut(SubSeq(word, 1, pos) \o <<insert_ch, word[pos + 1], insert_ch>>
                   \o SubSeq(word, pos + 2, Len(word)),
                 after.rng, FALSE, "insert", pos),
         insert_ch, pos, pos)

\* after = random.choice([True, False]); insert after or before the position
TypoInsertPlace(word, pos, insert_ch, after) ==
  IF after.val
  THEN Placed(TypoOut(SubSeq(word, 1, pos + 1) \o <<insert_ch>>
                        \o SubSeq(word, pos + 2, Len(word)),
                      after.rng, FALSE, "insert", pos),
              insert_ch, pos, pos + 1)
  ELSE Placed(TypoOut(SubSeq(word, 1, pos) \o <<insert_ch>>
                        \o SubSeq(word, pos + 1, Len(word)),
                      after.rng, FALSE, "insert", pos),
              insert_ch, pos, pos)

\* if insert_ch is None: op = "substitute" else: insert
TypoInsertCh(word, pos, ins) ==
  IF ins.err THEN TypoOut(word, ins.rng, TRUE, "noop", pos)
  ELSE IF ins.ch = None THEN TypoSubstitute(word, pos, ins.rng)
  ELSE TypoInsertPlace(word, pos, ins.ch, RandomChoice(<<TRUE, FALSE>>, ins.rng))

\* alt_pos = max(0, min(len(word) - 1, base_pos + random.choice([-1, 1])))
AltPos(word, pos, d) == Max(0, Min(Len(word) - 1, pos + d))

\* The history of an insertion whose neighbor was picked for word[alt_pos]
BasedOn(out, alt_pos) == IF out.op = "insert" THEN [out EXCEPT !.base = alt_pos] ELSE out

\* insert_ch = _pick_neighbor_like(word[alt_pos])
TypoInsertAlt(word, pos, dir) ==
  BasedOn(TypoInsertCh(word, pos,
            PickNeighborLike(word[AltPos(word, pos, dir.val) + 1], dir.rng)),
          AltPos(word, pos, dir.val))

\* insert_ch = _pick_neighbor_like(base_ch); if None, try a nearby character
TypoInsertPicked(word, pos, ins1) ==
  IF ins1.ch = None /\ ~ins1.err /\ Len(word) > 1
  THEN TypoInsertAlt(word, pos, RandomChoice(<<-1, 1>>, ins1.rng))
  ELSE TypoInsertCh(word, pos, ins1)

\* --- INSERT ---, else substitute
TypoInsertOrSubstitute(word, pos, cop) ==
  IF cop.val = "insert"
  THEN After("insert", TypoInsertPicked(word, pos, PickNeighborLike(word[pos + 1], cop.rng)))
  ELSE TypoSubstitute(word, pos, cop.rng)

\* A delete that does not look at the length of the word
TypoWithOpAnyLen(word, pos, cop) ==
  IF cop.val = "delete"
  THEN After("delete", TypoOut(SubSeq(word, 1, pos) \o SubSeq(word, pos + 2, Len(word)),
                               cop.rng, FALSE, "delete", pos))
  ELSE TypoInsertOrSubstitute(word, pos, cop)

\* --- DELETE ---, or the fallback op = random.choice(["insert", "substitute"])
TypoWithOp(word, pos, cop) ==
  IF cop.val = "delete" /\ Len(word) > min_token_len
  THEN After("delete", TypoOut(SubSeq(word, 1, pos) \o SubSeq(word, pos + 2, Len(word)),
                               cop.rng, FALSE, "delete", pos))
  ELSE IF cop.val = "delete"
  THEN After("delete", TypoInsertOrSubstitute(word, pos,
                         RandomChoice(<<"insert", "substitute">>, cop.rng)))
  ELSE TypoInsertOrSubstitute(word, pos, cop)

\* op = random.choice(["delete", "insert", "substitute"])
TypoAt(word, cpos) ==
  IF cpos.err THEN TypoOut(word, cpos.rng, TRUE, "noop", -1)
  ELSE TypoWithOp(word, cpos.val,
         RandomChoice(<<"delete", "insert", "substitute">>, cpos.rng))

\* Every index of the word, the first and the last included
PositionsAll(n) == [k \in 1..n |-> k - 1]

\* interior_positions if interior_positions else list(range(len(word)))
Positions(n) ==
  IF n - 2 > 0 THEN [k \in 1..(n - 2) |-> k] ELSE [k \in 1..n |-> k - 1]

\* inject_typo
InjectTypo(word, s0) ==
  IF Len(word) < min_token_len THEN TypoOut(word, s0, FALSE, "short", -1)
  ELSE TypoAt(word, RandomChoice(Positions(Len(word)), s0))

\* ------------------------------------------------------------------------
\* Tokenizer and detokenizer (external collaborators) and the spacing fix
\* ------------------------------------------------------------------------

IsWordCh(c) == IsAlphaCh(c) \/ c = "1" \/ c = "_"

FlushToken(cur) == IF cur = <<>> THEN <<>> ELSE <<cur>>

\* word_tokenize: split at spaces, every punctuation character a token
RECURSIVE TokenizeFrom(_, _, _)
TokenizeFrom(text, k, cur) ==
  IF k > Len(text) THEN FlushToken(cur)
  ELSE IF text[k] = " " THEN FlushToken(cur) \o TokenizeFrom(text, k + 1, <<>>)
  ELSE IF IsWordCh(text[k]) THEN TokenizeFrom(text, k + 1, Append(cur, text[k]))
  ELSE FlushToken(cur) \o << <<text[k]>> >> \o TokenizeFrom(text, k + 1, <<>>)

WordTokenize(text) == TokenizeFrom(text, 1, <<>>)

\* DETOK.detokenize: the tokens joined by single spaces
RECURSIVE Detokenize(_)
Detokenize(toks) ==
  IF toks = <<>> THEN <<>>
  ELSE IF Len(toks) = 1 THEN toks[1]
  ELSE toks[1] \o <<" ">> \o Detokenize(Tail(toks))

\* .replace(" ,", ",").replace(" .", ".").replace(" !", "!").replace(" ?", "?")
RECURSIVE ReplaceSpaceBefore(_, _)
ReplaceSpaceBefore(text, p) ==
  IF Len(text) < 2 THEN text
  ELSE IF text[1] = " " /\ text[2] = p THEN <<p>> \o ReplaceSpaceBefore(SubSeq(text, 3, Len(text)), p)
  ELSE <<text[1]>> \o ReplaceSpaceBefore(Tail(text), p)

FixSpacing(text) ==
  ReplaceSpaceBefore(ReplaceSpaceBefore(ReplaceSpaceBefore(ReplaceSpaceBefore(
    text, ","), "."), "!"), "?")

\* ------------------------------------------------------------------------
\* Examples
\* ------------------------------------------------------------------------

\* Python values of the `text` field: a str, or None
PyStr(chars) == [type |-> "str", v |-> chars]
PyNone == [type |-> "NoneType"]

Example(text, label) == [text |-> text, label |-> label, idx |-> 7]

ExampleTexts ==
  { <<"g","r","e","a","t"," ","f","u","n",".">>,
    <<"G","R","E","A","T"," ","f","i","l","m">>,
    <<"G","r","e","a","t"," ","F","u","n"," ","!">>,
    <<"t","h","e"," ","b","i","b","l","e"," ","i","s"," ","o","k">>,
    <<"<","b","r"," ","/",">"," ","R","o","l","e">>,
    <<"T","h","e"," ","r","o","l","e",","," ","b","1">>,
    <<"x","y","z"," ","o_circ","o_circ","o_circ"," ","o_circ","o_circ","o_circ","o_circ">>,
    <<"B","I","B","L","E">>,
    <<" ">> }

\* The examples a call may be given: texts with either label, an empty text,
\* a None text and an example without a `text` field.
Examples ==
  { Example(PyStr(t), Len(t) % 2) : t \in ExampleTexts }
    \cup { Example(PyStr(<<>>), 1), Example(PyNone, 0), [label |-> 1, idx |-> 7] }

\* Bounds of the model: the seeds a run may start from, the calls in a run
MaxSeed == 2046
MaxCalls == 2

Init ==
  /\ seed0 \in 0..MaxSeed
  /\ rng = Seed(seed0)
  /\ cache = <<>>
  /\ example \in Examples
  /\ input = example
  /\ pc = "idle"
  /\ tokens = <<>>
  /\ i = 1
  /\ tok = <<>>
  /\ new_tokens = <<>>
  /\ log = <<>>
  /\ step = 0
  /\ calls = 0
  /\ first = example
  /\ RestIdle

\* ------------------------------------------------------------------------
\* custom_transform, step by step
\* ------------------------------------------------------------------------

\* text = example.get("text", "")
GetText(ex) == IF "text" \in DOMAIN ex THEN ex.text ELSE PyStr(<<>>)

\* A guard that forgets the empty string
ShortCircuitNoLen(ex) == GetText(ex).type # "str"

\* if not isinstance(text, str) or len(text) == 0: return example
ShortCircuit(ex) ==
  LET text == GetText(ex)
  IN  text.type # "str" \/ Len(text.v) = 0

\* Entry of the call up to the tokenization.
Call ==
  /\ pc = "idle"
  /\ calls' = calls + 1
  /\ step' = step + 1
  /\ IF ShortCircuit(example)
     THEN /\ pc' = "done"
          /\ UNCHANGED << tokens, i, new_tokens, log >>
     ELSE /\ pc' = "loop"
          /\ tokens' = WordTokenize(GetText(example).v)
          /\ i' = 1
          /\ new_tokens' = <<>>
          /\ log' = <<>>
  /\ UNCHANGED << rng, cache, example, tok, input, seed0, first >>
  /\ UNCHANGED restVars

IsHtmlToken(t) == Lower(t) \in HtmlTokens
\* A stopword test that forgets to lower-case the token
IsStopwordExact(t) == t \in STOPWORDS
IsStopword(t) == Lower(t) \in STOPWORDS
\* tok.isalpha() and len(tok) >= min_token_len
IsEligible(t) == IsAlpha(t) /\ Len(t) >= min_token_len

\* Which branch of the loop body a token takes
TokenKind(t) ==
  IF IsHtmlToken(t) THEN "html"
  ELSE IF IsStopword(t) THEN "stop"
  ELSE IF IsEligible(t) THEN "eligible"
  ELSE "other"

LogEntry(t, kind) ==
  [ orig |-> t, kind |-> kind, synHit |-> FALSE, looked |-> FALSE, lemmas |-> <<>>,
    replaced |-> FALSE, afterSyn |-> t, typoTaken |-> FALSE, typoHit |-> FALSE,
    typoOp |-> "none", out |-> t, synAt |-> 0, typoAt |-> 0, cached |-> FALSE ]

\* A loop that drops the html-like tokens instead of passing them through
PassTokenDropHtml ==
  /\ pc = "loop"
  /\ i <= Len(tokens)
  /\ TokenKind(tokens[i]) # "eligible"
  /\ new_tokens' = IF TokenKind(tokens[i]) = "html" THEN new_tokens
                    ELSE Append(new_tokens, tokens[i])
  /\ tok' = tokens[i]
  /\ i' = i + 1
  /\ log' = Append(log, LogEntry(tokens[i], TokenKind(tokens[i])))
  /\ step' = step + 1
  /\ UNCHANGED << rng, cache, example, pc, tokens, input, seed0, calls, first >>
  /\ UNCHANGED restVars

\* An html-like token, a stopword, or a non-alphabetic or short token:
\* new_tokens.append(tok)
PassToken ==
  /\ pc = "loop"
  /\ i <= Len(tokens)
  /\ TokenKind(tokens[i]) # "eligible"
  /\ new_tokens' = Append(new_tokens, tokens[i])
  /\ tok' = tokens[i]
  /\ i' = i + 1
  /\ log' = Append(log, LogEntry(tokens[i], TokenKind(tokens[i])))
  /\ step' = step + 1
  /\ UNCHANGED << rng, cache, example, pc, tokens, input, seed0, calls, first >>
  /\ UNCHANGED restVars

\* The result of the synonym step on a token
SynOut(t, s, c, hit, lemmas, replaced, err) ==
  [tok |-> t, rng |-> s, cache |-> c, hit |-> hit, looked |-> hit, lemmas |-> lemmas,
   replaced |-> replaced, err |-> err]

\* syn = get_synonym(tok); if syn: tok = match_case(tok, syn)
SynReplace(t, got) ==
  IF got.found /\ Len(got.syn) > 0
  THEN SynOut(MatchCase(t, got.syn), got.rng, got.cache, TRUE, got.lemmas, TRUE, got.err)
  ELSE SynOut(t, got.rng, got.cache, TRUE, got.lemmas, FALSE, got.err)

\* if random.random() < p_syn: ...
SynDrawn(t, c, draw) ==
  IF draw.hit THEN SynReplace(t, GetSynonym(t, c, draw.rng))
  ELSE SynOut(t, draw.rng, c, FALSE, <<>>, FALSE, FALSE)

SynResult(t, c, s) == SynDrawn(t, c, RandomLess(s, p_syn_num, p_syn_den))

\* The result of the typo step on a token
TypoStepOut(typo, hit) ==
  [tok |-> typo.word, rng |-> typo.rng, hit |-> hit, op |-> typo.op, err |-> typo.err]

\* if random.random() < p_typo_word: tok = inject_typo(tok)
TypoDrawn(t, draw) ==
  IF draw.hit THEN TypoStepOut(InjectTypo(t, draw.rng), TRUE)
  ELSE TypoStepOut(TypoOut(t, draw.rng, FALSE, "none", -1), FALSE)

TypoResult(t, s) == TypoDrawn(t, RandomLess(s, p_typo_num, p_typo_den))

\* An eligible token: the synonym step with result r
SynApply(r) ==
  /\ tok' = r.tok
  /\ rng' = r.rng
  /\ cache' = r.cache
  /\ pc' = IF r.err THEN "raised" ELSE "typo"
  /\ log' = Append(log,
              [LogEntry(tokens[i], "eligible") EXCEPT
                 !.synHit = r.hit, !.looked = r.looked, !.lemmas = r.lemmas,
                 !.replaced = r.replaced, !.afterSyn = r.tok, !.out = r.tok,
                 !.synAt = step + 1,
                 !.cached = r.looked /\ CacheHas(cache, Lower(tokens[i]))])

SynStep ==
  /\ pc = "loop"
  /\ i <= Len(tokens)
  /\ TokenKind(tokens[i]) = "eligible"
  /\ SynApply(SynResult(tokens[i], cache, rng))
  /\ step' = step + 1
  /\ UNCHANGED << example, tokens, i, new_tokens, input, seed0, calls, first >>
  /\ UNCHANGED restVars

\* The same token: the typo step with result r, then new_tokens.append(tok)
TypoApply(r) ==
  /\ tok' = r.tok
  /\ rng' = r.rng
  /\ pc' = IF r.err THEN "raised" ELSE "loop"
  /\ new_tokens' = IF r.err THEN new_tokens ELSE Append(new_tokens, r.tok)
  /\ i' = IF r.err THEN i ELSE i + 1
  /\ log' = [log EXCEPT ![Len(log)] =
              [@ EXCEPT !.typoTaken = TRUE, !.typoHit = r.hit, !.typoOp = r.op,
                        !.out = r.tok, !.typoAt = step + 1]]

\* A typo step that works on the original token instead of tok
TypoStepOnOriginal ==
  /\ pc = "typo"
  /\ TypoApply(TypoResult(tokens[i], rng))
  /\ step' = step + 1
  /\ UNCHANGED << cache, example, tokens, input, seed0, calls, first >>
  /\ UNCHANGED restVars

\* A typo step taken only as the else-branch of the synonym draw
TypoStepElse ==
  /\ pc = "typo"
  /\ IF log[Len(log)].synHit
     THEN /\ new_tokens' = Append(new_tokens, tok)
          /\ i' = i + 1
          /\ pc' = "loop"
          /\ UNCHANGED << tok, rng, log >>
     ELSE TypoApply(TypoResult(tok, rng))
  /\ step' = step + 1
  /\ UNCHANGED << cache, example, tokens, input, seed0, calls, first >>
  /\ UNCHANGED restVars

TypoStep ==
  /\ pc = "typo"
  /\ TypoApply(TypoResult(tok, rng))
  /\ step' = step + 1
  /\ UNCHANGED << cache, example, tokens, input, seed0, calls, first >>
  /\ UNCHANGED restVars

\* A write-back that also overwrites the label
WriteBackLabel(ex, new_text) ==
  [f \in DOMAIN ex \cup {"text"} |->
     IF f = "text" THEN PyStr(new_text) ELSE IF f = "label" THEN 1 - ex[f] ELSE ex[f]]

\* example["text"] = new_text
WriteBack(ex, new_text) ==
  [f \in DOMAIN ex \cup {"text"} |-> IF f = "text" THEN PyStr(new_text) ELSE ex[f]]

\* After the loop: detokenize, fix the spacing, update the example, return it
Finish ==
  /\ pc = "loop"
  /\ i > Len(tokens)
  /\ example' = WriteBack(example, FixSpacing(Detokenize(new_tokens)))
  /\ pc' = "done"
  /\ step' = step + 1
  /\ UNCHANGED << rng, cache, tokens, i, tok, new_tokens, input, seed0, log, calls, first >>
  /\ UNCHANGED restVars

\* random.seed(seed) again and a second call on an equal example, in the
\* same process (the cache stays as the first call left it).
Repeat ==
  /\ pc = "done"
  /\ calls < MaxCalls
  /\ first' = example
  /\ example' = input
  /\ rng' = Seed(seed0)
  /\ pc' = "idle"
  /\ step' = step + 1
  /\ UNCHANGED << cache, tokens, i, tok, new_tokens, input, seed0, log, calls >>
  /\ UNCHANGED restVars

Next == Call \/ PassToken \/ SynStep \/ TypoStep \/ Finish \/ Repeat

Spec == Init /\ [][Next]_vars

\* ------------------------------------------------------------------------
\* inject_typo on its own
\* ------------------------------------------------------------------------

\* inject_typo is called on tok after the synonym step: the eligible token or
\* a lemma cased like it, so any non-empty alphabetic string; a lemma can be
\* shorter than min_token_len.  The words are drawn over a lower-case letter,
\* an upper-case letter and a letter the adjacency table does not have.
TypoAlphabet == { "a", "Q", "o_circ" }
MaxWordLen == 4
TypoWords == UNION { [1..n -> TypoAlphabet] : n \in 1..MaxWordLen }

InitTypo ==
  /\ seed0 \in 0..MaxSeed
  /\ rng = Seed(seed0)
  /\ tok \in TypoWords
  /\ pc = "inject_typo"
  /\ log = <<>>
  /\ cache = <<>>
  /\ example = Example(PyStr(tok), 0)
  /\ input = example
  /\ first = example
  /\ tokens = <<tok>>
  /\ i = 1
  /\ new_tokens = <<>>
  /\ step = 0
  /\ calls = 0
  /\ RestIdle

\* The call returns r (or raises): log keeps the whole result
InjectTypoReturns(r) ==
  /\ log' = <<r>>
  /\ rng' = r.rng
  /\ pc' = IF r.err THEN "raised" ELSE "returned"

\* tok = inject_typo(tok), the word kept in tok for comparison
InjectTypoCall ==
  /\ pc = "inject_typo"
  /\ InjectTypoReturns(InjectTypo(tok, rng))
  /\ step' = step + 1
  /\ UNCHANGED << cache, example, tokens, i, tok, new_tokens, input, seed0, calls, first >>
  /\ UNCHANGED restVars

NextTypo == InjectTypoCall

SpecTypo == InitTypo /\ [][NextTypo]_vars

\* ------------------------------------------------------------------------
\* Properties
\* ------------------------------------------------------------------------

\* text is missing, not a str, or the empty string
InvalidText(ex) ==
  \/ "text" \notin DOMAIN ex
  \/ ex.text.type # "str"
  \/ Len(ex.text.v) = 0

\* C1: the example returned has the label of the example given; at every
\* point of a call every field other than `text` has the value it was given
\* and no field other than `text` is added.
C1_OnlyTextWritten ==
  /\ DOMAIN example \subseteq DOMAIN input \cup {"text"}
  /\ \A f \in DOMAIN input : f # "text" => f \in DOMAIN example /\ example[f] = input[f]
  /\ example.label = input.label

\* A call returned a changed text under the label it was given.
C1_Witness ==
  /\ pc = "done"
  /\ ~InvalidText(input)
  /\ example.text # input.text
  /\ example.label = input.label

\* C2: on a missing, non-str or empty text the call returns the example as it
\* was given, without tokenizing, processing a token, looking up a synonym
\* or drawing from the random stream.
C2_InvalidTextUnchanged ==
  InvalidText(input) =>
    /\ example = input
    /\ pc \in {"idle", "done"}
    /\ rng = Seed(seed0)
    /\ cache = <<>>
    /\ tokens = <<>> /\ new_tokens = <<>> /\ log = <<>>

\* A call on an invalid text has returned.
C2_Witness == pc = "done" /\ calls = 1 /\ InvalidText(input) /\ example = input

\* The entries of the log whose token has been appended to new_tokens
Finished == 1..Len(new_tokens)

\* No character of the word has an entry in the QWERTY table
NoNeighborIn(w) == \A k \in 1..Len(w) : QwertyNeighbors(LowerCh(w[k])) = <<>>

\* C3: a call on a non-empty text never raises and returns within two steps
\* per token; a lookup that finds no synonym leaves the token as it was, and a
\* typo step on a token none of whose characters has a QWERTY neighbor
\* inserts and substitutes nothing.
C3_NeverRaises ==
  /\ pc # "raised"
  /\ pc \in {"idle", "loop", "typo", "done"}
  /\ pc = "loop" => i <= Len(tokens) + 1
  /\ pc = "typo" => i <= Len(tokens) /\ Len(log) = i
  /\ step <= calls * (2 * Len(tokens) + 3)
  /\ \A k \in 1..Len(log) :
       /\ (log[k].looked /\ log[k].lemmas = <<>>) =>
            ~log[k].replaced /\ log[k].afterSyn = log[k].orig
       /\ (log[k].typoHit /\ NoNeighborIn(log[k].afterSyn)) =>
            \/ log[k].out = log[k].afterSyn
            \/ Len(log[k].afterSyn) > min_token_len /\ Len(log[k].out) = Len(log[k].afterSyn) - 1

\* A call returned after a lookup that found no synonym and after a typo
\* step on a token without any QWERTY neighbor.
C3_Witness ==
  /\ pc = "done"
  /\ \E k \in 1..Len(log) : log[k].looked /\ log[k].lemmas = <<>>
  /\ \E k \in 1..Len(log) :
       log[k].typoHit /\ NoNeighborIn(log[k].afterSyn) /\ log[k].out = log[k].afterSyn

\* The tokens the claim exempts: html fragments, stopwords (compared in
\* lower case), non-alphabetic tokens and tokens shorter than 3 characters
ExemptToken(t) ==
  \/ Lower(t) \in HtmlTokens
  \/ Lower(t) \in STOPWORDS
  \/ ~IsAlpha(t)
  \/ Len(t) < 3

\* C4: new_tokens is aligned with tokens, and an exempt token stands unchanged
\* at its own index of new_tokens, with no synonym looked up for it and no
\* typo step taken on it.
C4_ExemptTokensUntouched ==
  /\ Len(new_tokens) <= Len(tokens)
  /\ pc = "done" /\ ~InvalidText(input) => Len(new_tokens) = Len(tokens)
  /\ \A k \in Finished :
       ExemptToken(tokens[k]) =>
         /\ new_tokens[k] = tokens[k]
         /\ log[k].orig = tokens[k]
         /\ ~log[k].synHit /\ ~log[k].looked /\ ~log[k].replaced
         /\ ~log[k].typoTaken /\ ~log[k].typoHit

\* A call returned with an exempt token after a token that was changed.
C4_Witness ==
  /\ pc = "done"
  /\ \E j, k \in Finished :
       j < k /\ new_tokens[j] # tokens[j] /\ Len(new_tokens[j]) # Len(tokens[j])
             /\ ExemptToken(tokens[k])

\* C5: a second call on an equal example, after the stream was seeded again
\* with the same seed, returns an equal example (the same text).
C5_SameSeedSameOutput ==
  (pc = "done" /\ calls >= 2) => example = first

\* The second call returned a text that differs from the text given.
C5_Witness ==
  /\ pc = "done" /\ calls = 2
  /\ ~InvalidText(input)
  /\ example.text # input.text
  /\ example = first

\* The length difference between a candidate and the original token
LenDiff(c, e) == Abs(Len(c) - Len(e.orig))

\* The candidates of entry e that are strictly closer in length than w
CloserThan(e, w) == { j \in 1..Len(e.lemmas) : LenDiff(e.lemmas[j], e) < LenDiff(w, e) }

\* C6 as claimed: the chosen candidate is the closest in length, no
\* candidate of the looked-up set has a strictly smaller length difference.
C6_ChosenIsClosest ==
  \A k \in 1..Len(log) : log[k].replaced => CloserThan(log[k], log[k].afterSyn) = {}

\* C6 as amended: the chosen candidate is one of the five closest in length:
\* fewer than five candidates have a strictly smaller length difference.
C6_ChosenAmongFiveClosest ==
  \A k \in 1..Len(log) :
    log[k].replaced => Cardinality(CloserThan(log[k], log[k].afterSyn)) < TopK

\* A token with more than five candidates was replaced by a candidate that is
\* not the closest in length.
C6_Witness ==
  \E k \in 1..Len(log) :
    /\ log[k].replaced
    /\ Len(log[k].lemmas) > TopK
    /\ CloserThan(log[k], log[k].afterSyn) # {}

\* str.istitle() and str.islower() on alphabetic tokens
IsTitleStr(w) == Len(w) > 0 /\ IsUpperCh(w[1]) /\ \A k \in 2..Len(w) : IsLowerCh(w[k])
IsLowerStr(w) == Len(w) > 0 /\ \A k \in 1..Len(w) : IsLowerCh(w[k])

\* C7 as claimed: the token emitted for a synonym-replaced token is all upper
\* case, title case or lower case as the original token is, also after a typo.
C7_CasePreserved ==
  \A k \in 1..Len(log) :
    log[k].replaced =>
      /\ IsUpper(log[k].orig) => IsUpper(log[k].out)
      /\ IsTitleStr(log[k].orig) => IsTitleStr(log[k].out)
      /\ IsLowerStr(log[k].orig) => IsLowerStr(log[k].out)

\* C7 as amended: all upper case stays all upper case, also after a typo;
\* title case gives a title-case replacement, which a typo keeps title case
\* unless it inserts next to a second character without QWERTY neighbor; a
\* lower-case token gets the candidate as the resource spells it, and a typo
\* keeps a lower-case replacement lower case.
C7_CasePreservedUpperTitle ==
  \A k \in 1..Len(log) :
    log[k].replaced =>
      /\ IsUpper(log[k].orig) => IsUpper(log[k].afterSyn) /\ IsUpper(log[k].out)
      /\ IsTitleStr(log[k].orig) =>
           /\ IsTitleStr(log[k].afterSyn)
           /\ \/ IsTitleStr(log[k].out)
              \/ /\ log[k].typoOp = "insert"
                 /\ QwertyNeighbors(LowerCh(log[k].afterSyn[2])) = <<>>
      /\ IsLowerStr(log[k].orig) =>
           /\ log[k].afterSyn \in Range(log[k].lemmas)
           /\ IsLowerStr(log[k].afterSyn) => IsLowerStr(log[k].out)

\* An all upper case token was replaced and a typo changed the replacement.
C7_Witness ==
  \E k \in Finished :
    /\ log[k].replaced /\ IsUpper(log[k].orig)
    /\ log[k].typoHit /\ log[k].out # log[k].afterSyn

\* The candidates the resource returns for a lowercase word
ResourceCandidates(w) ==
  { ReplaceUnderscore(WordNetLemmaNames(w)[k]) : k \in 1..Len(WordNetLemmaNames(w)) }

\* C8: a synonym-replaced token carries a case-matched member of the
\* candidate set returned for its lowercase form, which differs from the
\* original case-insensitively; only an eligible token whose p_syn draw
\* succeeded and whose candidate set is not empty is replaced.
C8_ReplacementIsCandidate ==
  \A k \in 1..Len(log) :
    /\ log[k].afterSyn # log[k].orig => log[k].replaced
    /\ log[k].replaced =>
         /\ ~ExemptToken(log[k].orig)
         /\ log[k].synHit
         /\ log[k].lemmas # <<>>
         /\ Range(log[k].lemmas) \subseteq ResourceCandidates(Lower(log[k].orig))
         /\ \E c \in Range(log[k].lemmas) :
              log[k].afterSyn \in {c, Upper(c), Capitalize(c)}
         /\ Lower(log[k].afterSyn) # Lower(log[k].orig)

\* The token "great" was replaced by one of its candidates.
C8_Witness ==
  \E k \in 1..Len(log) :
    /\ log[k].replaced
    /\ log[k].orig = <<"g","r","e","a","t">>
    /\ log[k].afterSyn \in { <<"b","i","g">>, <<"n","e","a","t">>, <<"s","w","e","l","l">> }

\* b is a with one character deleted
IsDeletionOf(a, b) ==
  /\ Len(b) = Len(a) - 1
  /\ \E p \in 1..Len(a) : b = SubSeq(a, 1, p - 1) \o SubSeq(a, p + 1, Len(a))

\* b is a after exactly one single-character edit
OneEdit(a, b) ==
  \/ IsDeletionOf(a, b)
  \/ IsDeletionOf(b, a)
  \/ Len(a) = Len(b) /\ Cardinality({ p \in 1..Len(a) : a[p] # b[p] }) = 1

RECURSIVE TransformFrom(_, _, _, _, _)
TransformTypo(toks, k, c, acc, r) ==
  TransformFrom(toks, k + 1, c, r.rng, Append(acc, r.tok))

TransformSyn(toks, k, acc, r) ==
  TransformTypo(toks, k, r.cache, acc, TypoResult(r.tok, r.rng))

TransformFrom(toks, k, c, s, acc) ==
  IF k > Len(toks) THEN [new_tokens |-> acc, cache |-> c, rng |-> s]
  ELSE IF TokenKind(toks[k]) # "eligible"
  THEN TransformFrom(toks, k + 1, c, s, Append(acc, toks[k]))
  ELSE TransformSyn(toks, k, acc, SynResult(toks[k], c, s))

\* The example returned, and the cache and the stream as the call leaves them
Returned(ex, r) ==
  [example |-> WriteBack(ex, FixSpacing(Detokenize(r.new_tokens))),
   cache |-> r.cache, rng |-> r.rng]

CustomTransform(ex, c, s) ==
  IF ShortCircuit(ex) THEN [example |-> ex, cache |-> c, rng |-> s]
  ELSE Returned(ex, TransformFrom(WordTokenize(GetText(ex).v), 1, c, s, <<>>))

\* The two invocations (threads of one process) and the examples they get
Invocations == {1, 2}
Other(t) == 3 - t

ParTexts ==
  { <<"g","r","e","a","t"," ","f","u","n",".">>,
    <<"G","R","E","A","T"," ","f","i","l","m">> }

MaxParSeed == 15

\* Every variable but the stream, the cache and the seed holds one value for
\* each invocation.  calls[t] counts the steps of t that drew from the
\* stream, first[t] the drawing steps of the other invocation that came
\* before the latest drawing step of t.
InitPar ==
  /\ seed0 \in 0..MaxParSeed
  /\ rng = Seed(seed0)
  /\ cache = <<>>
  /\ example \in [Invocations -> { Example(PyStr(t), Len(t) % 2) : t \in ParTexts }]
  /\ input = example
  /\ pc = [t \in Invocations |-> "idle"]
  /\ tokens = [t \in Invocations |-> <<>>]
  /\ i = [t \in Invocations |-> 1]
  /\ tok = [t \in Invocations |-> <<>>]
  /\ new_tokens = [t \in Invocations |-> <<>>]
  /\ log = <<>>
  /\ step = 0
  /\ calls = [t \in Invocations |-> 0]
  /\ first = [t \in Invocations |-> 0]
  /\ RestIdle

\* Entry of invocation t up to the tokenization
ParCall(t) ==
  /\ pc[t] = "idle"
  /\ IF ShortCircuit(example[t])
     THEN /\ pc' = [pc EXCEPT ![t] = "done"]
          /\ UNCHANGED tokens
     ELSE /\ pc' = [pc EXCEPT ![t] = "loop"]
          /\ tokens' = [tokens EXCEPT ![t] = WordTokenize(GetText(example[t]).v)]
  /\ step' = step + 1
  /\ UNCHANGED << rng, cache, example, i, tok, new_tokens, input, seed0, log, calls, first >>
  /\ UNCHANGED restVars

\* new_tokens.append(tok) for a token that is not eligible
ParPass(t) ==
  /\ pc[t] = "loop"
  /\ i[t] <= Len(tokens[t])
  /\ TokenKind(tokens[t][i[t]]) # "eligible"
  /\ new_tokens' = [new_tokens EXCEPT ![t] = Append(@, tokens[t][i[t]])]
  /\ tok' = [tok EXCEPT ![t] = tokens[t][i[t]]]
  /\ i' = [i EXCEPT ![t] = @ + 1]
  /\ step' = step + 1
  /\ UNCHANGED << rng, cache, example, pc, tokens, input, seed0, log, calls, first >>
  /\ UNCHANGED restVars

\* Draws that read the stream state and never store the new one
ParDrewNotStored(t, s) ==
  /\ rng' = rng
  /\ calls' = [calls EXCEPT ![t] = IF s # rng THEN @ + 1 ELSE @]
  /\ first' = [first EXCEPT ![t] = IF s # rng THEN calls[Other(t)] ELSE @]

\* Invocation t took the stream from rng to s: the draws of the step
ParDrew(t, s) ==
  /\ rng' = s
  /\ calls' = [calls EXCEPT ![t] = IF s # rng THEN @ + 1 ELSE @]
  /\ first' = [first EXCEPT ![t] = IF s # rng THEN calls[Other(t)] ELSE @]

\* The synonym step of invocation t with result r
ParSynApply(t, r) ==
  /\ tok' = [tok EXCEPT ![t] = r.tok]
  /\ cache' = r.cache
  /\ ParDrew(t, r.rng)
  /\ pc' = [pc EXCEPT ![t] = IF r.err THEN "raised" ELSE "typo"]

ParSyn(t) ==
  /\ pc[t] = "loop"
  /\ i[t] <= Len(tokens[t])
  /\ TokenKind(tokens[t][i[t]]) = "eligible"
  /\ ParSynApply(t, SynResult(tokens[t][i[t]], cache, rng))
  /\ step' = step + 1
  /\ UNCHANGED << example, tokens, i, new_tokens, input, seed0, log >>
  /\ UNCHANGED restVars

\* The typo step of invocation t with result r, then new_tokens.append(tok)
ParTypoApply(t, r) ==
  /\ tok' = [tok EXCEPT ![t] = r.tok]
  /\ ParDrew(t, r.rng)
  /\ pc' = [pc EXCEPT ![t] = IF r.err THEN "raised" ELSE "loop"]
  /\ new_tokens' = [new_tokens EXCEPT ![t] = IF r.err THEN @ ELSE Append(@, r.tok)]
  /\ i' = [i EXCEPT ![t] = IF r.err THEN @ ELSE @ + 1]

ParTypo(t) ==
  /\ pc[t] = "typo"
  /\ ParTypoApply(t, TypoResult(tok[t], rng))
  /\ step' = step + 1
  /\ UNCHANGED << cache, example, tokens, input, seed0, log >>
  /\ UNCHANGED restVars

\* Detokenize, fix the spacing, update the example of invocation t
ParFinish(t) ==
  /\ pc[t] = "loop"
  /\ i[t] > Len(tokens[t])
  /\ example' = [example EXCEPT ![t] =
                   WriteBack(@, FixSpacing(Detokenize(new_tokens[t])))]
  /\ pc' = [pc EXCEPT ![t] = "done"]
  /\ step' = step + 1
  /\ UNCHANGED << rng, cache, tokens, i, tok, new_tokens, input, seed0, log, calls, first >>
  /\ UNCHANGED restVars

\* The steps of the two invocations interleave in any order.  One step holds
\* the draws of one synonym or typo attempt; the interpreter can switch
\* between any two draws, so these are some of the interleavings it has.
NextPar ==
  \E t \in Invocations :
    ParCall(t) \/ ParPass(t) \/ ParSyn(t) \/ ParTypo(t) \/ ParFinish(t)

SpecPar == InitPar /\ [][NextPar]_vars

\* ------------------------------------------------------------------------
\* main.py: create_augmented_dataloader
\* ------------------------------------------------------------------------

\* custom_transform not called
UtilsIdle ==
  /\ seed0 = 0
  /\ rng = Seed(seed0)
  /\ cache = <<>>
  /\ example = PyNone
  /\ input = PyNone
  /\ first = PyNone
  /\ tokens = <<>>
  /\ i = 1
  /\ tok = <<>>
  /\ new_tokens = <<>>
  /\ calls = 0

SampleSize == 5000
BatchSize == 8
ModelMaxLength == 512

\* The rows map handles in one step, and the seeds of the global stream
MapStep == 500
MaxAugSeed == 3

\* The rows of a training split of n rows: a text and a label each
TrainTexts ==
  << <<"g","r","e","a","t","!">>,
     <<"B","I","B","L","E">>,
     <<"t","h","e"," ","f","i","l","m">> >>

TrainRow(k) == [text |-> PyStr(TrainTexts[(k % 3) + 1]), label |-> k % 2]

TrainSplit(n) == [k \in 1..n |-> TrainRow(k)]

\* Splits one row short of the sample, exactly as large, and larger
SplitSizes == { SampleSize - 1, SampleSize, SampleSize + 1 }

\* shuffle(seed=42) puts the rows in an order fixed by the seed and the number
\* of rows n.  The generator is a collaborator; this permutation stands for
\* it: the multiplier is prime to every n in SplitSizes.
Shuffled(n) == [k \in 1..n |-> ((7 * k + 3) % n) + 1]

\* tokenizer(text, padding="max_length", truncation=True), the columns
\* removed and renamed: the text cut to the length of the model (its
\* characters stand for the word pieces) and padded to that length (the
\* padding is kept as the length padded to), the label as `labels`
Tokenized(row) ==
  [input_ids |-> Prefix(row.text.v, ModelMaxLength),
   padded_to |-> ModelMaxLength,
   labels |-> row.label]

\* The rows first_row..last of the sample handed to custom_transform one
\* after the other, from cache c and stream state s: the examples returned,
\* the stream state each call started from, and the cache and stream left.
\* (The rows are taken by halves, the second half from what the first left.)
RECURSIVE MapRows(_, _, _, _)
MapOne(s, r) ==
  [rows |-> <<r.example>>, starts |-> <<s>>, cache |-> r.cache, rng |-> r.rng]

MapRowsThen(left, right) ==
  [rows |-> left.rows \o right.rows, starts |-> left.starts \o right.starts,
   cache |-> right.cache, rng |-> right.rng]

MapRowsFrom(left, mid, last) ==
  MapRowsThen(left, MapRows(mid + 1, last, left.cache, left.rng))

MapRows(first_row, last, c, s) ==
  IF last < first_row
  THEN [rows |-> <<>>, starts |-> <<>>, cache |-> c, rng |-> s]
  ELSE IF first_row = last
  THEN MapOne(s, CustomTransform(dataset[sampled_raw[last]], c, s))
  ELSE MapRowsFrom(MapRows(first_row, (first_row + last) \div 2, c, s),
                   (first_row + last) \div 2, last)

\* main.py seeds the global stream once (random.seed(0)); what a seed makes
\* of the stream is the generator's, so the stream starts from any of the
\* seeds.  log keeps the stream state each call of custom_transform started
\* from.
InitAug ==
  /\ dataset \in { TrainSplit(n) : n \in SplitSizes }
  /\ args = [batch_size |-> BatchSize]
  /\ sampled_raw = <<>>
  /\ transformed_raw = <<>>
  /\ augmented_raw = <<>>
  /\ train_dataloader = <<>>
  /\ pc = "sample"
  /\ log = <<>>
  /\ step = 0
  /\ seed0 \in 0..MaxAugSeed
  /\ rng = Seed(seed0)
  /\ cache = <<>>
  /\ example = PyNone
  /\ input = PyNone
  /\ first = PyNone
  /\ tokens = <<>>
  /\ i = 1
  /\ tok = <<>>
  /\ new_tokens = <<>>
  /\ calls = 0
  /\ epoch = 0
  /\ best_f1 = -1
  /\ epochs_since_improvement = 0
  /\ checkpoints = <<>>
  /\ model = -1
  /\ MoreIdle

\* A map that writes the returned rows back into the split it reads
MapWritesInPlace(from, r) ==
  /\ transformed_raw' = transformed_raw \o r.rows
  /\ dataset' = [k \in 1..Len(dataset) |->
                   IF \E j \in 1..Len(r.rows) : sampled_raw[from + j - 1] = k
                   THEN r.rows[CHOOSE j \in 1..Len(r.rows) : sampled_raw[from + j - 1] = k]
                   ELSE dataset[k]]
  /\ rng' = r.rng
  /\ cache' = r.cache
  /\ log' = log \o r.starts

\* map hands custom_transform a copy of each row of the sample and writes the
\* examples returned to a new dataset, after the rows written before
MapWrites(from, r) ==
  /\ transformed_raw' = transformed_raw \o r.rows
  /\ dataset' = dataset
  /\ rng' = r.rng
  /\ cache' = r.cache
  /\ log' = log \o r.starts

\* sampled_raw = train_raw.shuffle(seed=42).select(range(5000)); select
\* raises IndexError on a split of fewer rows
Sample ==
  /\ pc = "sample"
  /\ IF Len(dataset) < SampleSize
     THEN pc' = "raised" /\ UNCHANGED sampled_raw
     ELSE /\ pc' = "map"
          /\ sampled_raw' = Prefix(Shuffled(Len(dataset)), SampleSize)
  /\ step' = step + 1
  /\ UNCHANGED << rng, cache, input, seed0, log, callVars, trainVars, moreVars,
                  dataset, transformed_raw, augmented_raw, train_dataloader >>

\* transformed_raw = sampled_raw.map(custom_transform): the rows in the order
\* of the sample, MapStep of them in a step
MapRow ==
  /\ pc = "map"
  /\ Len(transformed_raw) < Len(sampled_raw)
  /\ MapWrites(Len(transformed_raw) + 1,
               MapRows(Len(transformed_raw) + 1,
                       Min(Len(transformed_raw) + MapStep, Len(sampled_raw)),
                       cache, rng))
  /\ step' = step + 1
  /\ UNCHANGED << pc, input, seed0, callVars, trainVars, moreVars,
                  sampled_raw, augmented_raw, train_dataloader >>

\* augmented_raw = datasets.concatenate_datasets([train_raw, transformed_raw])
Concatenate ==
  /\ pc = "map"
  /\ Len(transformed_raw) = Len(sampled_raw)
  /\ augmented_raw' = dataset \o transformed_raw
  /\ pc' = "tokenize"
  /\ step' = step + 1
  /\ UNCHANGED << rng, cache, input, seed0, log, callVars, trainVars, moreVars,
                  dataset, sampled_raw, transformed_raw, train_dataloader >>

\* Tokenize the augmented set and wrap it into the DataLoader returned
MakeDataLoader ==
  /\ pc = "tokenize"
  /\ train_dataloader' =
       [dataset |-> [k \in 1..Len(augmented_raw) |-> Tokenized(augmented_raw[k])],
        shuffle |-> TRUE, batch_size |-> args.batch_size]
  /\ pc' = "returned"
  /\ step' = step + 1
  /\ UNCHANGED << rng, cache, input, seed0, log, callVars, trainVars, moreVars,
                  dataset, sampled_raw, transformed_raw, augmented_raw >>

NextAug == Sample \/ MapRow \/ Concatenate \/ MakeDataLoader

SpecAug == InitAug /\ [][NextAug]_vars

\* ------------------------------------------------------------------------
\* train_t5.py: train
\* ------------------------------------------------------------------------

\* The arguments train reads and the dev record F1 an evaluation can give,
\* as levels 0..MaxF1 of the score
MaxEpochs == 6
MaxPatience == 2
MaxEvalEvery == 3
MaxF1 == 2

TrainArgs ==
  [max_n_epochs : 0..MaxEpochs, patience_epochs : 0..MaxPatience,
   eval_every : 1..MaxEvalEvery]

\* One entry of the log per epoch of the loop
EpochEntry(e, do_eval, record_f1, improved) ==
  [epoch |-> e, do_eval |-> do_eval, record_f1 |-> record_f1, improved |-> improved]

\* best_f1 = -1; epochs_since_improvement = 0.  The checkpoint directory is
\* named after the experiment, so each file is absent (-1) or left there by
\* an earlier run (-2); the model starts from its initial weights or from
\* args.init_from_checkpoint.  range(0) has no epoch to run.
InitTrain ==
  /\ args \in TrainArgs
  /\ epoch = 0
  /\ best_f1 = -1
  /\ epochs_since_improvement = 0
  /\ checkpoints \in [last : {-1, -2}, best : {-1, -2}]
  /\ model \in {-1, -2}
  /\ pc = IF args.max_n_epochs > 0 THEN "train_epoch" ELSE "returned"
  /\ log = <<>>
  /\ step = 0
  /\ UtilsIdle
  /\ MainIdle
  /\ MoreIdle

\* tr_loss = train_epoch(...): the model now has the weights of this epoch;
\* step counts the epochs trained
TrainEpoch ==
  /\ pc = "train_epoch"
  /\ pc' = "trained"
  /\ model' = epoch
  /\ step' = step + 1
  /\ UNCHANGED << rng, cache, input, seed0, log, callVars, mainVars, moreVars,
                  args, epoch, best_f1, epochs_since_improvement, checkpoints >>

\* An evaluation on the multiples of eval_every alone
DoEvalOnlyEvery(e) == (e + 1) % args.eval_every = 0

\* do_eval = ((epoch + 1) % args.eval_every == 0) or (epoch == args.max_n_epochs - 1)
DoEval(e) == ((e + 1) % args.eval_every = 0) \/ (e = args.max_n_epochs - 1)

\* for epoch in range(args.max_n_epochs): the next iteration, or the end
NextEpoch ==
  /\ epoch' = epoch + 1
  /\ pc' = IF epoch + 1 < args.max_n_epochs THEN "train_epoch" ELSE "returned"

\* save_model(checkpoint_dir, model, best): the file named by best gets the
\* weights of the model
SaveModel(files, best) ==
  IF best THEN [files EXCEPT !.best = model] ELSE [files EXCEPT !.last = model]

\* A skipped epoch that counts as one without improvement
SkipEvalCounts ==
  /\ pc = "trained"
  /\ ~DoEval(epoch)
  /\ checkpoints' = SaveModel(checkpoints, FALSE)
  /\ epochs_since_improvement' = epochs_since_improvement + 1
  /\ log' = Append(log, EpochEntry(epoch, FALSE, -1, FALSE))
  /\ NextEpoch
  /\ UNCHANGED << rng, cache, input, seed0, step, callVars, mainVars, moreVars,
                  args, best_f1, model >>

\* if not do_eval: save_model(checkpoint_dir, model, best=False); continue
SkipEval ==
  /\ pc = "trained"
  /\ ~DoEval(epoch)
  /\ checkpoints' = SaveModel(checkpoints, FALSE)
  /\ epochs_since_improvement' = epochs_since_improvement
  /\ log' = Append(log, EpochEntry(epoch, FALSE, -1, FALSE))
  /\ NextEpoch
  /\ UNCHANGED << rng, cache, input, seed0, step, callVars, mainVars, moreVars,
                  args, best_f1, model >>

\* The rest of the loop body once record_f1 is known and the counter is at
\* since: the checkpoints, then the early stop
AfterEval(record_f1, since) ==
  /\ epochs_since_improvement' = since
  /\ checkpoints' = IF since = 0
                    THEN SaveModel(SaveModel(checkpoints, FALSE), TRUE)
                    ELSE SaveModel(checkpoints, FALSE)
  /\ log' = Append(log, EpochEntry(epoch, TRUE, record_f1, record_f1 > best_f1))
  /\ IF since >= args.patience_epochs
     THEN pc' = "stopped" /\ epoch' = epoch
     ELSE NextEpoch

\* An evaluation that takes a tie for an improvement
EvaluatedTieImproves(record_f1) ==
  /\ best_f1' = IF record_f1 >= best_f1 THEN record_f1 ELSE best_f1
  /\ AfterEval(record_f1, IF record_f1 >= best_f1 THEN 0 ELSE epochs_since_improvement + 1)

\* if record_f1 > best_f1: best_f1 = record_f1; epochs_since_improvement = 0
\* else: epochs_since_improvement += 1
Evaluated(record_f1) ==
  /\ best_f1' = IF record_f1 > best_f1 THEN record_f1 ELSE best_f1
  /\ AfterEval(record_f1, IF record_f1 > best_f1 THEN 0 ELSE epochs_since_improvement + 1)

\* eval_epoch(...) and the rest of the loop body
EvalEpoch ==
  /\ pc = "trained"
  /\ DoEval(epoch)
  /\ \E record_f1 \in 0..MaxF1 : Evaluated(record_f1)
  /\ UNCHANGED << rng, cache, input, seed0, step, callVars, mainVars, moreVars,
                  args, model >>

\* main, after train returned (by the end of the loop or by the break):
\* model = load_model_from_checkpoint(args, best=True), which raises
\* FileNotFoundError when the directory holds no best_model.pt
LoadBest ==
  /\ pc \in {"returned", "stopped"}
  /\ IF checkpoints.best = -1
     THEN pc' = "raised" /\ model' = model
     ELSE pc' = "loaded" /\ model' = checkpoints.best
  /\ UNCHANGED << rng, cache, input, seed0, log, step, callVars, mainVars, moreVars,
                  args, epoch, best_f1, epochs_since_improvement, checkpoints >>

NextTrain == TrainEpoch \/ SkipEval \/ EvalEpoch \/ LoadBest

SpecTrain == InitTrain /\ [][NextTrain]_vars

\* ------------------------------------------------------------------------
\* _cached_synonyms on its own
\* ------------------------------------------------------------------------

\* The words looked up while the model watches
LookupWords ==
  { <<"g","r","e","a","t">>, <<"f","u","n">>, <<"x","y","z">> }

\* The k-th of the other words of the process: "q" and k written in letters,
\* all distinct, none a lookup word, none known to the resource
FillerWord(k) ==
  << "q", LowerLetters[((k \div 17576) % 26) + 1], LowerLetters[((k \div 676) % 26) + 1],
     LowerLetters[((k \div 26) % 26) + 1], LowerLetters[(k % 26) + 1] >>


\* The state keeps the cache of this process folded: the run of consecutive
\* other words FillerWord(from)..FillerWord(to) in it as its two ends, the
\* entries before the run and those after it as they are.  Folded(c) is the
\* cache c folded and Unfolded gives c back, whatever c holds.
FillerEntry(k) == <<FillerWord(k), ComputeSynonyms(FillerWord(k))>>

FillerEntries == [k \in 1..CacheMaxSize |-> FillerEntry(k)]

LetterIndex(ch) == CHOOSE n \in 1..Len(LowerLetters) : LowerLetters[n] = ch

FillerIndex(w) ==
  (LetterIndex(w[2]) - 1) * 17576 + (LetterIndex(w[3]) - 1) * 676
    + (LetterIndex(w[4]) - 1) * 26 + (LetterIndex(w[5]) - 1)

IsFiller(e) == Len(e[1]) = 5 /\ e[1][1] = "q"

Unfolded(f) == f.lru \o SubSeq(FillerEntries, f.from, f.to) \o f.mru

Unfoldable(c) == [lru |-> c, from |-> 1, to |-> 0, mru |-> <<>>]

FoldedBetween(c, a, b) ==
  [lru |-> SubSeq(c, 1, a - 1), from |-> FillerIndex(c[a][1]),
   to |-> FillerIndex(c[b][1]), mru |-> SubSeq(c, b + 1, Len(c))]

\* The first of the other words from the front and the first from the back
FoldedRun(c) ==
  FoldedBetween(c,
    CHOOSE k \in 1..Len(c) : IsFiller(c[k]) /\ (k = 1 \/ ~IsFiller(c[k - 1])),
    Len(c) + 1 - (CHOOSE j \in 1..Len(c) :
                    /\ IsFiller(c[Len(c) + 1 - j])
                    /\ (j = 1 \/ ~IsFiller(c[Len(c) + 2 - j]))))

FoldedIfSame(c, f) == IF Unfolded(f) = c THEN f ELSE Unfoldable(c)

Folded(c) ==
  IF \E k \in 1..Len(c) : IsFiller(c[k])
  THEN FoldedIfSame(c, FoldedRun(c))
  ELSE Unfoldable(c)

\* The cache of a process that looked up the word w and then n other words
CacheAfter(w, n) == <<<<w, ComputeSynonyms(w)>>>> \o SubSeq(FillerEntries, 1, n)

\* How many other words the process looked up before the model watches it:
\* none, or as many as leave room for one or for no further word
CacheFills == { 0, CacheMaxSize - 2, CacheMaxSize - 1 }
MaxLookups == 3

\* One lookup as the log keeps it: the word, whether it was answered from the
\* cache, the candidates returned, the words that left the cache, and the
\* number of other words looked up before the next logged lookup
LookupEntry(w, hit, val, evicted, others) ==
  [word |-> w, hit |-> hit, val |-> val, evicted |-> evicted, others |-> others]

InitCache ==
  /\ \E w \in LookupWords, n \in CacheFills :
       /\ tok = w
       /\ calls = n
       /\ cache = Folded(CacheAfter(w, n))
  /\ log = << LookupEntry(tok, FALSE, ComputeSynonyms(tok), <<>>, calls) >>
  /\ pc = "lookup"
  /\ step = 1
  /\ seed0 = 0
  /\ rng = Seed(seed0)
  /\ example = Example(PyStr(tok), 0)
  /\ input = example
  /\ first = example
  /\ tokens = <<tok>>
  /\ i = 1
  /\ new_tokens = <<>>
  /\ RestIdle

\* The least recently used word, if the lookup pushed it out of the cache
EvictedBy(c, after) ==
  IF c # <<>> /\ after.cache[1] # c[1] /\ after.cache[Len(after.cache)] # c[1]
  THEN <<c[1][1]>> ELSE <<>>

\* _cached_synonyms(w) on the cache c with result r
LookupReturns(w, c, r) ==
  /\ cache' = Folded(r.cache)
  /\ tok' = w
  /\ log' = Append(log, LookupEntry(w, CacheHas(c, w), r.val, EvictedBy(c, r), 0))

LookupIn(w, c) == LookupReturns(w, c, CachedSynonyms(w, c))

Lookup ==
  /\ pc = "lookup"
  /\ step < MaxLookups + 1
  /\ \E c \in {Unfolded(cache)} : \E w \in LookupWords : LookupIn(w, c)
  /\ step' = step + 1
  /\ UNCHANGED << rng, example, pc, tokens, i, new_tokens, input, seed0, calls, first >>
  /\ UNCHANGED restVars

NextCache == Lookup

SpecCache == InitCache /\ [][NextCache]_vars

\* ------------------------------------------------------------------------
\* load_data.py: normal_collate_fn.  A tensor of shape BxT is a sequence of
\* B rows of T ids.
\* ------------------------------------------------------------------------

PAD_IDX == 0
PAD_VAL == -100
BOS_ID == 32099

\* The ids a tokenized text can hold (the pad id too: the tokenizer gives it
\* for the text "<pad>"), the longest row and the sizes of a batch.  A
\* tokenized text has at least its end-of-sequence id, so no row is empty.
CollateIds == { PAD_IDX, 5 }
MaxRowLen == 2
BatchLens == { 1, 2 }

CollateRows == UNION { [1..n -> CollateIds] : n \in 1..MaxRowLen }

\* pad_sequence(seqs, batch_first=True, padding_value=v)
LongestOf(seqs) ==
  CHOOSE n \in { Len(seqs[r]) : r \in 1..Len(seqs) } :
    \A r \in 1..Len(seqs) : Len(seqs[r]) <= n

PadSequence(seqs, v) ==
  [r \in 1..Len(seqs) |->
     seqs[r] \o [k \in 1..(LongestOf(seqs) - Len(seqs[r])) |-> v]]

\* (ids != pad_id).long()
MakePadMask(ids, pad_id) ==
  [r \in 1..Len(ids) |-> [t \in 1..Len(ids[r]) |-> IF ids[r][t] # pad_id THEN 1 ELSE 0]]

\* A decoder input that keeps the last position of the target
DecInputsWhole(tgt_padded) ==
  [r \in 1..Len(tgt_padded) |-> <<BOS_ID>> \o tgt_padded[r]]

\* torch.cat([bos, tgt_padded[:, :-1]], dim=1)
DecInputs(tgt_padded) ==
  [r \in 1..Len(tgt_padded) |->
     <<BOS_ID>> \o SubSeq(tgt_padded[r], 1, Len(tgt_padded[r]) - 1)]

\* dec_targets = tgt_padded.clone(); dec_targets[dec_targets == PAD_IDX] = PAD_VAL
DecTargets(tgt_padded) ==
  [r \in 1..Len(tgt_padded) |->
     [t \in 1..Len(tgt_padded[r]) |->
        IF tgt_padded[r][t] = PAD_IDX THEN PAD_VAL ELSE tgt_padded[r][t]]]

\* The tuple normal_collate_fn returns, by the names of its parts
Collated(enc_padded, tgt_padded) ==
  [enc_padded |-> enc_padded,
   enc_mask |-> MakePadMask(enc_padded, PAD_IDX),
   dec_inputs |-> DecInputs(tgt_padded),
   dec_targets |-> DecTargets(tgt_padded),
   initial_decoder_inputs |-> [r \in 1..Len(tgt_padded) |-> <<BOS_ID>>]]

NormalCollateFn(b) ==
  Collated(PadSequence([r \in 1..Len(b) |-> b[r][1]], PAD_IDX),
           PadSequence([r \in 1..Len(b) |-> b[r][2]], PAD_IDX))

InitCollate ==
  /\ batch \in UNION { [1..n -> CollateRows \X CollateRows] : n \in BatchLens }
  /\ collated = <<>>
  /\ pc = "collate"
  /\ log = <<>>
  /\ step = 0
  /\ response = <<>>
  /\ extracted_query = <<>>
  /\ grads = {}
  /\ UtilsIdle
  /\ MainIdle
  /\ TrainIdle

Collate ==
  /\ pc = "collate"
  /\ collated' = NormalCollateFn(batch)
  /\ pc' = "returned"
  /\ step' = step + 1
  /\ UNCHANGED << rng, cache, input, seed0, log, callVars, mainVars, trainVars,
                  batch, response, extracted_query, grads >>

NextCollate == Collate

SpecCollate == InitCollate /\ [][NextCollate]_vars

\* ------------------------------------------------------------------------
\* prompting_utils.py: extract_sql_query
\* ------------------------------------------------------------------------

\* "tick" is the backquote character
Fence == << "tick", "tick", "tick" >>
SqlFence == << "tick", "tick", "tick", "s", "q", "l" >>
SelectWord == << "S", "E", "L", "E", "C", "T" >>
WhitespaceChars == { " ", "\n" }

\* The responses: up to MaxPieces of these pieces one after the other, or
\* None
Pieces ==
  { Fence, << "tick" >>, << "s", "q", "l" >>, Fence \o << "S", "Q", "L" >>,
    << "S", "e", "l", "e", "c", "t", " ", "1" >>, << " " >>, << "\n" >> }
MaxPieces == 4

RECURSIVE Joined(_)
Joined(ps) == IF ps = <<>> THEN <<>> ELSE Head(ps) \o Joined(Tail(ps))

Responses ==
  { PyNone } \cup
  { PyStr(Joined(ps)) : ps \in UNION { [1..n -> Pieces] : n \in 0..MaxPieces } }

\* s.strip()
Strip(s) ==
  IF \A k \in 1..Len(s) : s[k] \in WhitespaceChars
  THEN <<>>
  ELSE SubSeq(s,
         CHOOSE a \in 1..Len(s) :
           s[a] \notin WhitespaceChars /\ \A k \in 1..(a - 1) : s[k] \in WhitespaceChars,
         CHOOSE b \in 1..Len(s) :
           s[b] \notin WhitespaceChars /\ \A k \in (b + 1)..Len(s) : s[k] \in WhitespaceChars)

\* pat occurs in s at position p
OccursAt(s, p, pat) ==
  p + Len(pat) - 1 <= Len(s) /\ SubSeq(s, p, p + Len(pat) - 1) = pat

Occurrences(s, from, pat) == { p \in from..Len(s) : OccursAt(s, p, pat) }

Least(ps) == CHOOSE p \in ps : \A q \in ps : p <= q
Greatest(ps) == CHOOSE p \in ps : \A q \in ps : q <= p

\* re.search(opener + r"(.*?```)", text, flags): where the pattern matches;
\* with re.IGNORECASE the opener is compared in lower case
Matches(text, opener, flags) ==
  { p \in 1..Len(text) :
      /\ OccursAt(IF "IGNORECASE" \in flags THEN Lower(text) ELSE text, p, opener)
      /\ Occurrences(text, p + Len(opener), Fence) # {} }

\* A group that runs to the last closing fence
GroupGreedy(text, opener, p) ==
  SubSeq(text, p + Len(opener),
         Greatest(Occurrences(text, p + Len(opener), Fence)) + Len(Fence) - 1)

\* group(1) of the match at p: up to and with the nearest closing fence
Group(text, opener, p) ==
  SubSeq(text, p + Len(opener),
         Least(Occurrences(text, p + Len(opener), Fence)) + Len(Fence) - 1)

\* content.rsplit("```", 1)[0]
RSplitHead(content) ==
  IF Occurrences(content, 1, Fence) = {}
  THEN content
  ELSE SubSeq(content, 1, Greatest(Occurrences(content, 1, Fence)) - 1)

\* The content of the leftmost match, without its closing fence, stripped
BlockContent(text, opener, flags) ==
  Strip(RSplitHead(Group(text, opener, Least(Matches(text, opener, flags)))))

\* text.splitlines()
IndexOfNewline(text) == Least({ k \in 1..Len(text) : text[k] = "\n" })

RECURSIVE SplitLines(_)
SplitLines(text) ==
  IF text = <<>> THEN <<>>
  ELSE IF "\n" \notin Range(text) THEN << text >>
  ELSE << SubSeq(text, 1, IndexOfNewline(text) - 1) >>
         \o SplitLines(SubSeq(text, IndexOfNewline(text) + 1, Len(text)))

\* stripped.upper().startswith("SELECT")
LooksLikeSelect(line) == OccursAt(Upper(Strip(line)), 1, SelectWord)

\* The loop over the lines, and the last resort
SelectLineOr(lines, text) ==
  IF \E k \in 1..Len(lines) : LooksLikeSelect(lines[k])
  THEN Strip(lines[Least({ k \in 1..Len(lines) : LooksLikeSelect(lines[k]) })])
  ELSE text

ExtractFrom(text) ==
  IF Matches(text, SqlFence, {"IGNORECASE", "DOTALL"}) # {}
  THEN BlockContent(text, SqlFence, {"IGNORECASE", "DOTALL"})
  ELSE IF Matches(text, Fence, {"DOTALL"}) # {}
  THEN BlockContent(text, Fence, {"DOTALL"})
  ELSE SelectLineOr(SplitLines(text), text)

ExtractSqlQuery(r) == IF r = PyNone THEN <<>> ELSE ExtractFrom(Strip(r.v))

InitExtract ==
  /\ response \in Responses
  /\ extracted_query = <<>>
  /\ batch = <<>>
  /\ collated = <<>>
  /\ grads = {}
  /\ pc = "extract"
  /\ log = <<>>
  /\ step = 0
  /\ UtilsIdle
  /\ MainIdle
  /\ TrainIdle

\* extracted_query = extract_sql_query(response)
Extract ==
  /\ pc = "extract"
  /\ extracted_query' = ExtractSqlQuery(response)
  /\ pc' = "returned"
  /\ step' = step + 1
  /\ UNCHANGED << rng, cache, input, seed0, log, callVars, mainVars, trainVars,
                  batch, collated, response, grads >>

NextExtract == Extract

SpecExtract == InitExtract /\ [][NextExtract]_vars

\* ------------------------------------------------------------------------
\* The training loops: do_train of part-1-code/main.py and train_epoch of
\* part-2-code/train_t5.py.  args names the loop and what it was given, epoch
\* and step are the 0-based epoch and batch, log is the sequence of the
\* calls made on the loss, the optimizer and the scheduler.
\* ------------------------------------------------------------------------

MaxBatches == 3
MaxLoopEpochs == 2

\* do_train always builds a linear scheduler; initialize_scheduler returns
\* None for --scheduler_type none.  use_amp is torch.cuda.is_available().
LoopArgs ==
  { a \in [loop : {"do_train", "train_epoch"}, use_amp : BOOLEAN,
           scheduler_type : {"none", "cosine", "linear"},
           n_batches : 1..MaxBatches, num_epochs : 1..MaxLoopEpochs] :
      a.loop = "do_train" => a.scheduler_type = "linear" }

\* One call of the loop body on the current batch
LoopEvent(kind) == [kind |-> kind, epoch |-> epoch, step |-> step, grads |-> grads]

\* what no step of the loops touches
loopRest ==
  << rng, cache, input, seed0, callVars, mainVars, best_f1,
     epochs_since_improvement, checkpoints, model, batch, collated, response,
     extracted_query >>

\* A fresh model has no gradients; do_train starts its batch with the
\* forward pass, train_epoch with optimizer.zero_grad()
InitLoop ==
  /\ args \in LoopArgs
  /\ epoch = 0
  /\ step = 0
  /\ grads = {}
  /\ log = <<>>
  /\ pc = IF args.loop = "do_train" THEN "backward" ELSE "zero_grad"
  /\ best_f1 = -1
  /\ epochs_since_improvement = 0
  /\ checkpoints = <<>>
  /\ model = -1
  /\ batch = <<>>
  /\ collated = <<>>
  /\ response = <<>>
  /\ extracted_query = <<>>
  /\ UtilsIdle
  /\ MainIdle

\* The next batch of the loader, the next epoch (for do_train the next
\* iteration of its epoch loop, for train_epoch the next call by train), or
\* the end; start is where the body of the loop starts
NextBatch(start) ==
  IF step + 1 < args.n_batches
  THEN step' = step + 1 /\ epoch' = epoch /\ pc' = start
  ELSE /\ step' = 0
       /\ epoch' = epoch + 1
       /\ pc' = IF epoch + 1 < args.num_epochs THEN start ELSE "done"

\* loss.backward() or scaler.scale(loss).backward(), after the forward pass:
\* the gradients of the batch are added to p.grad
Backward(loop) ==
  /\ args.loop = loop
  /\ pc = "backward"
  /\ grads' = grads \cup { << epoch, step >> }
  /\ log' = Append(log, LoopEvent("backward"))
  /\ pc' = "optimizer_step"
  /\ UNCHANGED << args, epoch, step, loopRest >>

\* optimizer.step() or scaler.step(optimizer): the update from p.grad
OptimizerStep(loop) ==
  /\ args.loop = loop
  /\ pc = "optimizer_step"
  /\ log' = Append(log, LoopEvent("optimizer_step"))
  /\ pc' = "scheduler_step"
  /\ UNCHANGED << args, epoch, step, grads, loopRest >>

\* main.py, do_train
LoopBackward == Backward("do_train")

LoopOptimizerStep == OptimizerStep("do_train")

\* lr_scheduler.step()
LoopSchedulerStep ==
  /\ args.loop = "do_train"
  /\ pc = "scheduler_step"
  /\ log' = Append(log, LoopEvent("scheduler_step"))
  /\ pc' = "zero_grad"
  /\ UNCHANGED << args, epoch, step, grads, loopRest >>

\* optimizer.zero_grad(set_to_none=True), the last call on the batch
LoopZeroGrad ==
  /\ args.loop = "do_train"
  /\ pc = "zero_grad"
  /\ grads' = {}
  /\ log' = Append(log, LoopEvent("zero_grad"))
  /\ NextBatch("backward")
  /\ UNCHANGED << args, loopRest >>

\* A zero_grad that leaves p.grad as it is
EpochZeroGradKeeps ==
  /\ args.loop = "train_epoch"
  /\ pc = "zero_grad"
  /\ grads' = grads
  /\ log' = Append(log, LoopEvent("zero_grad"))
  /\ pc' = "backward"
  /\ UNCHANGED << args, epoch, step, loopRest >>

\* train_t5.py, train_epoch: optimizer.zero_grad(), the first call on the
\* batch
EpochZeroGrad ==
  /\ args.loop = "train_epoch"
  /\ pc = "zero_grad"
  /\ grads' = {}
  /\ log' = Append(log, LoopEvent("zero_grad"))
  /\ pc' = "backward"
  /\ UNCHANGED << args, epoch, step, loopRest >>

EpochBackward == Backward("train_epoch")

EpochOptimizerStep == OptimizerStep("train_epoch")

\* if scheduler is not None: scheduler.step()
EpochSchedulerStep ==
  /\ args.loop = "train_epoch"
  /\ pc = "scheduler_step"
  /\ log' = IF args.scheduler_type # "none"
            THEN Append(log, LoopEvent("scheduler_step"))
            ELSE log
  /\ NextBatch("zero_grad")
  /\ UNCHANGED << args, grads, loopRest >>

NextLoop ==
  \/ LoopBackward \/ LoopOptimizerStep \/ LoopSchedulerStep \/ LoopZeroGrad
  \/ EpochZeroGrad \/ EpochBackward \/ EpochOptimizerStep \/ EpochSchedulerStep

SpecLoop == InitLoop /\ [][NextLoop]_vars

\* ------------------------------------------------------------------------
\* inject_typo (SpecTypo): tok is the word given, log[1] the result
\* ------------------------------------------------------------------------

\* b is a with the character at 0-based index p left out
DeletedAt(a, b, p) == b = SubSeq(a, 1, p) \o SubSeq(a, p + 2, Len(a))

\* b is a with the character at 0-based index p replaced by another one
SubstitutedAt(a, b, p) ==
  /\ Len(b) = Len(a)
  /\ \A k \in 1..Len(a) : (a[k] # b[k]) <=> (k = p + 1)

\* C11: inject_typo applies at most one single-character edit: the result is
\* the word itself, or the word with exactly one character deleted, inserted
\* or substituted, as the operation it reports; the lengths differ by at
\* most 1.
C11_AtMostOneEdit ==
  pc = "returned" =>
    /\ log[1].word = tok \/ OneEdit(tok, log[1].word)
    /\ log[1].op = "delete" => IsDeletionOf(tok, log[1].word)
    /\ log[1].op = "insert" => IsDeletionOf(log[1].word, tok)
    /\ log[1].op = "substitute" => SubstitutedAt(tok, log[1].word, log[1].pos)
    /\ log[1].op \in {"short", "noop"} => log[1].word = tok
    /\ Abs(Len(log[1].word) - Len(tok)) <= 1

\* A character was deleted from a word of four characters.
C11_Witness ==
  /\ pc = "returned" /\ log[1].op = "delete"
  /\ Len(tok) = 4 /\ Len(log[1].word) = 3 /\ IsDeletionOf(tok, log[1].word)

\* C12: for a word of length >= 3 only the interior is edited: the deleted or
\* substituted index is never the first or the last one, an inserted
\* character lands strictly between the first and the last character, and
\* the result begins and ends with the characters the word begins and ends
\* with.
C12_InteriorOnly ==
  (pc = "returned" /\ Len(tok) >= 3) =>
    /\ log[1].op \in {"delete", "substitute"} => log[1].pos \in 1..(Len(tok) - 2)
    /\ log[1].op = "delete" => DeletedAt(tok, log[1].word, log[1].pos)
    /\ log[1].op = "substitute" => SubstitutedAt(tok, log[1].word, log[1].pos)
    /\ log[1].op = "insert" =>
         /\ log[1].at \in 1..(Len(log[1].word) - 2)
         /\ DeletedAt(log[1].word, tok, log[1].at)
    /\ log[1].word[1] = tok[1]
    /\ log[1].word[Len(log[1].word)] = tok[Len(tok)]

\* A character was inserted right before the last character of a word.
C12_Witness ==
  /\ pc = "returned" /\ Len(tok) >= 3 /\ log[1].op = "insert"
  /\ log[1].at = Len(log[1].word) - 2
  /\ log[1].pos = Len(tok) - 2

\* C13: a character that is inserted or substituted is a QWERTY neighbor of
\* the lower-case form of the character it is based on (the one at the chosen
\* position, or for an insertion the one next to it), and it is upper case
\* exactly when that character is.
C13_NeighborOfBase ==
  (pc = "returned" /\ log[1].op \in {"insert", "substitute"}) =>
    /\ log[1].base \in 0..(Len(tok) - 1)
    /\ log[1].op = "substitute" => log[1].base = log[1].pos
    /\ log[1].op = "insert" => Abs(log[1].base - log[1].pos) <= 1
    /\ log[1].word[log[1].at + 1] = log[1].ch
    /\ LowerCh(log[1].ch) \in Range(QwertyNeighbors(LowerCh(tok[log[1].base + 1])))
    /\ IsUpperCh(log[1].ch) <=> IsUpperCh(tok[log[1].base + 1])
    /\ IsLowerCh(log[1].ch) <=> ~IsUpperCh(tok[log[1].base + 1])

\* An upper-case neighbor of the character next to the chosen one was
\* inserted.
C13_Witness ==
  /\ pc = "returned" /\ log[1].op = "insert"
  /\ log[1].base # log[1].pos
  /\ IsUpperCh(log[1].ch)

\* The character of w at 0-based index p has no entry in the adjacency table
NoNeighborAt(w, p) == QwertyNeighbors(LowerCh(w[p + 1])) = <<>>

\* The steps of the fallback chain of inject_typo
FallbackChain ==
  /\ (log[1].tried # <<>> /\ log[1].tried[1] = "delete" /\ Len(tok) <= min_token_len) =>
       /\ Len(log[1].tried) >= 2
       /\ log[1].tried[2] \in {"insert", "substitute"}
       /\ log[1].op \in {"insert", "substitute", "noop"}
  /\ (log[1].tried # <<>> /\ log[1].tried[1] = "delete" /\ Len(tok) > min_token_len) =>
       log[1].op = "delete"
  /\ \A k \in 1..Len(log[1].tried) :
       log[1].tried[k] = "insert" =>
         /\ NoNeighborAt(tok, log[1].pos)
              /\ NoNeighborAt(tok, AltPos(tok, log[1].pos, -1))
              /\ NoNeighborAt(tok, AltPos(tok, log[1].pos, 1))
              => log[1].tried[Len(log[1].tried)] = "substitute"
         /\ log[1].op # "insert" =>
              /\ log[1].tried[Len(log[1].tried)] = "substitute"
              /\ NoNeighborAt(tok, log[1].pos)
         /\ ~NoNeighborAt(tok, log[1].pos) => log[1].op = "insert"
  /\ (log[1].tried # <<>> /\ log[1].tried[Len(log[1].tried)] = "substitute") =>
       IF NoNeighborAt(tok, log[1].pos)
       THEN log[1].op = "noop" /\ log[1].word = tok
       ELSE log[1].op = "substitute" /\ log[1].word # tok

\* C14 as claimed: the fallback chain, and the word is returned unchanged only
\* when no neighbor exists, read as weakly as it can be: some character of
\* the word has no neighbor.
C14_UnchangedOnlyWithoutNeighbor ==
  pc = "returned" =>
    /\ FallbackChain
    /\ log[1].word = tok => \E p \in 0..(Len(tok) - 1) : NoNeighborAt(tok, p)

\* C14 as amended: the fallback chain, and the word is returned unchanged only
\* when it is shorter than min_token_len (the early return, before any
\* position or operation is chosen) or when no neighbor exists for the
\* character at the chosen position.
C14_UnchangedOnlyShortOrWithoutNeighbor ==
  pc = "returned" =>
    /\ FallbackChain
    /\ log[1].word = tok =>
         \/ Len(tok) < min_token_len /\ log[1].op = "short"
         \/ log[1].op = "noop" /\ NoNeighborAt(tok, log[1].pos)

\* Delete was chosen on a word of three characters, insert was taken instead,
\* no neighbor could be picked, substitute found none either, and the word
\* came back unchanged.
C14_Witness ==
  /\ pc = "returned"
  /\ log[1].tried = <<"delete", "insert", "substitute">>
  /\ log[1].op = "noop" /\ log[1].word = tok /\ Len(tok) = min_token_len

\* ------------------------------------------------------------------------
\* custom_transform (Spec): token counts, the synonym cache
\* ------------------------------------------------------------------------

\* The insert and delete typo operations applied so far in this invocation
InsertDeleteOps == { k \in 1..Len(log) : log[k].typoOp \in {"insert", "delete"} }

\* The eligible tokens of the original token sequence
EligibleTokens == { k \in 1..Len(tokens) : TokenKind(tokens[k]) = "eligible" }

\* C15: length non-explosion: when the invocation is done, the token count of
\* the perturbed token sequence differs from the token count of the original
\* one by at most the number of insert and delete typo operations applied,
\* and that number is at most the number of eligible tokens.
C15_LengthNonExplosion ==
  /\ pc = "done" =>
       Abs(Len(new_tokens) - Len(tokens)) <= Cardinality(InsertDeleteOps)
  /\ pc \in {"loop", "typo", "done"} =>
       Cardinality(InsertDeleteOps) <= Cardinality(EligibleTokens)

\* An invocation on several tokens, html-like and eligible ones, ended after
\* an insert or delete typo.
C15_Witness ==
  /\ pc = "done" /\ calls = 1
  /\ Cardinality(InsertDeleteOps) >= 1
  /\ Cardinality(EligibleTokens) < Len(tokens)
  /\ \E k \in 1..Len(tokens) : TokenKind(tokens[k]) = "html"

\* L is the ordered candidate set of the lowercase word w as an uncached
\* lookup gives it: the purely alphabetic lemmas of the resource whose
\* lowercase form differs from w, each once, in sorted order
IsCandidateList(L, w) ==
  /\ Range(L) = { c \in ResourceCandidates(w) : IsAlpha(c) /\ Lower(c) # w }
  /\ \A k \in 1..(Len(L) - 1) : StrLess(L[k], L[k + 1])

\* The lowercase words looked up so far in this invocation
LookedUp == { Lower(log[k].orig) : k \in { j \in 1..Len(log) : log[j].looked } }

LastLookup(n) ==
  IF \E m \in 1..(n - 1) : log[m].word = log[n].word
  THEN CHOOSE m \in 1..(n - 1) :
         /\ log[m].word = log[n].word
         /\ \A j \in (m + 1)..(n - 1) : log[j].word # log[n].word
  ELSE 0

\* The number of distinct other words looked up after the m-th and before
\* the n-th lookup, both of the same word with none of it in between
OthersBetween(m, n) ==
  Cardinality({ log[j].word : j \in (m + 1)..(n - 1) })
    + (IF m = 1 THEN log[1].others ELSE 0)

\* C16 as claimed: the cache never evicts; once the candidates for a word
\* have been stored, every later lookup of that word is answered from the
\* cache, after any number of lookups of other words.
C16_NeverEvicts ==
  \A n \in 1..Len(log) :
    /\ log[n].evicted = <<>>
    /\ LastLookup(n) > 0 => log[n].hit

\* C16 as amended: the cache is bounded by CacheMaxSize words and evicts the
\* least recently used word when a new word is stored in a full cache; a
\* later lookup of a stored word is answered from the cache exactly when
\* fewer than CacheMaxSize distinct other words were looked up since the
\* last lookup of that word.
C16_LeastRecentlyUsedEvicted ==
  /\ pc = "lookup" => Len(Unfolded(cache)) <= CacheMaxSize
  /\ pc = "lookup" =>
       \A n \in 2..Len(log) :
         /\ log[n].hit <=>
              (LastLookup(n) > 0 /\ OthersBetween(LastLookup(n), n) < CacheMaxSize)
         /\ log[n].evicted # <<>> => ~log[n].hit

\* A stored word was pushed out of the full cache by the lookup of a new
\* word and its next lookup was not answered from the cache, while another
\* word was.
C16_Witness ==
  /\ pc = "lookup"
  /\ \E n \in 2..Len(log) :
       /\ log[n].evicted = <<log[1].word>>
       /\ \E k \in (n + 1)..Len(log) : log[k].word = log[1].word /\ ~log[k].hit
  /\ \E n \in 2..Len(log) : log[n].hit

\* ------------------------------------------------------------------------
\* Two invocations on one stream (SpecPar)
\* ------------------------------------------------------------------------

\* What invocation t returns when it runs alone from the same seed
AloneOutput(t) == CustomTransform(input[t], <<>>, Seed(seed0)).example

\* C18: the transform is not safe under parallel invocation on the one
\* stream.  An invocation is sure to return what it returns alone only when
\* no draw of the other invocation came before one of its own draws; the
\* witness is an interleaving in which an invocation returns something else.
C18_AloneOutputIfUndisturbed ==
  \A t \in Invocations :
    /\ (pc[t] = "done" /\ first[t] = 0) => example[t] = AloneOutput(t)
    /\ pc[t] = "done" => example[t].label = input[t].label

\* Both invocations drew from the stream before the other one had made its
\* last draw, and the one whose last draw came first returned a text it does
\* not return when run alone from the same seed.
C18_Witness ==
  /\ \A t \in Invocations : pc[t] = "done" /\ first[t] > 0
  /\ \E t \in Invocations :
       /\ first[t] < calls[Other(t)]
       /\ example[t] # AloneOutput(t)

\* ------------------------------------------------------------------------
\* train (SpecTrain): log has one entry per epoch, step counts the epochs
\* trained
\* ------------------------------------------------------------------------

\* The number of epochs trained up to the last improvement of the dev record
\* F1 (the index of its epoch in the log), or 0
LastImprovement ==
  IF \E k \in 1..Len(log) : log[k].improved
  THEN CHOOSE k \in 1..Len(log) :
         log[k].improved /\ \A j \in (k + 1)..Len(log) : ~log[j].improved
  ELSE 0

\* C19: early stopping: no more than patience_epochs training epochs are run
\* after the epoch of the last improvement of the dev record F1, for every
\* value of eval_every.
C19_StopsWithinPatienceEpochs ==
  (pc \in {"train_epoch", "trained", "stopped", "returned"} /\ LastImprovement > 0) =>
    step - LastImprovement <= args.patience_epochs

\* The epochs on which an evaluation is due: epoch + 1 is a multiple of
\* eval_every, or the epoch is the last of the run
EvaluationDue(e) ==
  \/ \E m \in 1..(e + 1) : e + 1 = m * args.eval_every
  \/ e + 1 = args.max_n_epochs

\* C23: every epoch of train() is evaluated exactly when epoch + 1 is a
\* multiple of eval_every or the epoch is max_n_epochs - 1; an epoch without
\* evaluation leaves best_f1, epochs_since_improvement and best_model.pt as
\* they were and writes the weights of the epoch to last_model.pt.
C23_EvaluatesOnDueEpochsOnly ==
  [][pc = "trained" =>
       /\ Len(log') = Len(log) + 1
       /\ log'[Len(log')].epoch = epoch
       /\ log'[Len(log')].do_eval <=> EvaluationDue(epoch)
       /\ ~EvaluationDue(epoch) =>
            /\ best_f1' = best_f1
            /\ epochs_since_improvement' = epochs_since_improvement
            /\ checkpoints'.best = checkpoints.best
            /\ checkpoints'.last = epoch]_vars

\* An epoch that was not evaluated has just ended, after an evaluated one:
\* best_model.pt holds an earlier epoch, last_model.pt this one.
C23_Witness ==
  /\ pc = "train_epoch"
  /\ Len(log) >= 2
  /\ ~log[Len(log)].do_eval
  /\ log[Len(log) - 1].do_eval
  /\ checkpoints.last = Len(log) - 1
  /\ checkpoints.best = Len(log) - 2

\* The positions of the log that hold an evaluated epoch
EvaluatedEpochs == { k \in 1..Len(log) : log[k].do_eval }

\* The largest dev record F1 of the evaluated epochs
MaxRecordF1 ==
  CHOOSE f \in { log[k].record_f1 : k \in EvaluatedEpochs } :
    \A k \in EvaluatedEpochs : log[k].record_f1 <= f

\* The first evaluated epoch whose dev record F1 is f
FirstEpochWith(f) ==
  CHOOSE e \in 0..(Len(log) - 1) :
    /\ e + 1 \in EvaluatedEpochs /\ log[e + 1].record_f1 = f
    /\ \A k \in EvaluatedEpochs : k < e + 1 => log[k].record_f1 # f

\* best_f1 is the largest record F1 evaluated so far, and best_model.pt
\* holds the weights of the epoch that reached it
BestTracksMax ==
  IF EvaluatedEpochs = {}
  THEN best_f1 = -1 /\ checkpoints.best \in {-1, -2}
  ELSE best_f1 = MaxRecordF1 /\ checkpoints.best = FirstEpochWith(best_f1)

\* C24: best_f1 is the maximum record F1 of the epochs evaluated so far and
\* never decreases; best_model.pt is rewritten exactly on the evaluated
\* epochs whose record F1 is strictly above the previous best_f1 (a tie adds
\* one to epochs_since_improvement), so it holds the weights of the epoch
\* that reached best_f1.
C24_BestIsMaxAndCheckpointed ==
  [][/\ BestTracksMax'
     /\ best_f1' >= best_f1
     /\ pc = "trained" =>
          LET entry == log'[Len(log')]
              improved == entry.do_eval /\ entry.record_f1 > best_f1
          IN /\ improved => checkpoints'.best = epoch
             /\ ~improved => checkpoints'.best = checkpoints.best
             /\ (entry.do_eval /\ entry.record_f1 = best_f1) =>
                  epochs_since_improvement' = epochs_since_improvement + 1]_vars

\* An evaluated epoch tied with the best one: best_model.pt still holds the
\* earlier epoch and the counter is above 0.
C24_Witness ==
  /\ pc = "train_epoch"
  /\ Len(log) >= 2
  /\ log[Len(log)].do_eval
  /\ log[Len(log)].record_f1 = best_f1
  /\ checkpoints.best < Len(log) - 1
  /\ checkpoints.best >= 0
  /\ checkpoints.last = Len(log) - 1
  /\ epochs_since_improvement > 0

\* C25: for max_n_epochs >= 1, when train() has returned (at the end of the
\* loop or by the early stop) best_model.pt holds weights written by this
\* run, and the load_model_from_checkpoint(best=True) of main loads them and
\* does not raise FileNotFoundError.
C25_BestWrittenBeforeReturn ==
  (args.max_n_epochs >= 1 /\ pc \in {"returned", "stopped", "loaded", "raised"}) =>
    /\ checkpoints.best \in 0..(args.max_n_epochs - 1)
    /\ pc # "raised"
    /\ pc = "loaded" => model = checkpoints.best

\* main has loaded the best checkpoint of a run that stopped early, in a
\* directory where an earlier run had left its best_model.pt.
C25_Witness ==
  /\ pc = "loaded"
  /\ Len(log) < args.max_n_epochs
  /\ model = checkpoints.best
  /\ model >= 0
  /\ model # checkpoints.last

\* ------------------------------------------------------------------------
\* do_train and train_epoch (SpecLoop)
\* ------------------------------------------------------------------------

\* The positions of the log that hold a call of the kind
EventsOf(kind) == { k \in 1..Len(log) : log[k].kind = kind }

\* Events k and j are of the same batch
SameBatch(k, j) == log[k].epoch = log[j].epoch /\ log[k].step = log[j].step

\* The batches the loop has finished
BatchesDone == epoch * args.n_batches + step

SampleOfSplit ==
  /\ dataset = TrainSplit(Len(dataset))
  /\ Len(sampled_raw) = SampleSize
  /\ \A k \in 1..Len(sampled_raw) : sampled_raw[k] \in 1..Len(dataset)
  /\ Cardinality(Range(sampled_raw)) = SampleSize

\* Row k of the mapped sample is what custom_transform returns for row k of
\* the sample from the stream state its call started in; it has the label
\* of that row, and that row of the split is as it was given
RowTransformed(k) ==
  /\ transformed_raw[k] =
       CustomTransform(TrainRow(sampled_raw[k]), <<>>, log[k]).example
  /\ transformed_raw[k].label = TrainRow(sampled_raw[k]).label
  /\ dataset[sampled_raw[k]] = TrainRow(sampled_raw[k])

\* The first of the rows the latest step of map wrote
LastStepFrom == ((Len(transformed_raw) - 1) \div MapStep) * MapStep + 1

LastRowsTransformed ==
  /\ Len(log) = Len(transformed_raw)
  /\ Len(sampled_raw) = SampleSize
  /\ Len(transformed_raw) <= SampleSize
  /\ transformed_raw # <<>> =>
       \A k \in LastStepFrom..Len(transformed_raw) : RowTransformed(k)

\* C20: the training set returned holds every row of the original training
\* split unmodified, followed by exactly 5000 rows, each made by
\* custom_transform from a different row of the split and keeping its label;
\* the original dataset is not modified.  (The rows are checked as map
\* writes them, the split and the sample as a whole before the first row
\* and after the last.)
C20_OriginalThenTransformedSample ==
  /\ pc \in {"sample", "raised"} => dataset = TrainSplit(Len(dataset))
  /\ pc = "map" => LastRowsTransformed
  /\ (pc = "map" /\ transformed_raw = <<>>) => SampleOfSplit
  /\ pc \in {"tokenize", "returned"} =>
       /\ SampleOfSplit
       /\ Len(transformed_raw) = SampleSize
       /\ Len(augmented_raw) = Len(dataset) + SampleSize
       /\ SubSeq(augmented_raw, 1, Len(dataset)) = dataset
       /\ SubSeq(augmented_raw, Len(dataset) + 1, Len(augmented_raw)) = transformed_raw
       /\ \A k \in 1..SampleSize :
            augmented_raw[Len(dataset) + k].label = dataset[sampled_raw[k]].label
  /\ pc = "returned" =>
       /\ Len(train_dataloader.dataset) = Len(augmented_raw)
       /\ \A k \in 1..Len(augmented_raw) :
            train_dataloader.dataset[k] = Tokenized(augmented_raw[k])

\* The loader was returned for a split larger than the sample: the rows of
\* the split, then 5000 rows, one of them with a text custom_transform
\* changed.
C20_Witness ==
  /\ pc = "returned"
  /\ Len(dataset) > SampleSize
  /\ Len(train_dataloader.dataset) = Len(dataset) + SampleSize
  /\ \E k \in 1..SampleSize :
       augmented_raw[Len(dataset) + k].text # dataset[sampled_raw[k]].text

\* ------------------------------------------------------------------------
\* normal_collate_fn (SpecCollate)
\* ------------------------------------------------------------------------

\* The longest target and the longest encoder input of the batch
TargetLen == LongestOf([r \in 1..Len(batch) |-> batch[r][2]])
EncoderLen == LongestOf([r \in 1..Len(batch) |-> batch[r][1]])

\* Position t of row r of the padded target: the id of the target there, the
\* pad id past its end
PaddedTarget(r, t) ==
  IF t <= Len(batch[r][2]) THEN batch[r][2][t] ELSE PAD_IDX

\* C21: for every row of a batch, the decoder input is the BOS id followed
\* by the padded target with its last position dropped, the decoder target
\* is the padded target with every position that holds the pad id replaced
\* by -100, both have the shape of the padded target, and the encoder mask
\* is 1 exactly at the encoder positions that do not hold the pad id.
C21_CollateShiftsAndMasks ==
  pc = "returned" =>
    /\ Len(collated.dec_inputs) = Len(batch)
    /\ Len(collated.dec_targets) = Len(batch)
    /\ Len(collated.enc_mask) = Len(batch)
    /\ \A r \in 1..Len(batch) :
         /\ Len(collated.dec_inputs[r]) = TargetLen
         /\ Len(collated.dec_targets[r]) = TargetLen
         /\ collated.dec_inputs[r][1] = BOS_ID
         /\ \A t \in 1..(TargetLen - 1) :
              collated.dec_inputs[r][t + 1] = PaddedTarget(r, t)
         /\ \A t \in 1..TargetLen :
              collated.dec_targets[r][t] =
                IF PaddedTarget(r, t) = PAD_IDX THEN -100 ELSE PaddedTarget(r, t)
         /\ Len(collated.enc_mask[r]) = EncoderLen
         /\ Len(collated.enc_padded[r]) = EncoderLen
         /\ \A t \in 1..EncoderLen :
              /\ collated.enc_padded[r][t] =
                   (IF t <= Len(batch[r][1]) THEN batch[r][1][t] ELSE PAD_IDX)
              /\ collated.enc_mask[r][t] \in {0, 1}
              /\ collated.enc_mask[r][t] = 1 <=> collated.enc_padded[r][t] # PAD_IDX

\* A batch of two rows was collated whose targets and encoder inputs differ
\* in length: the shorter target was padded and its padding replaced, the
\* shorter encoder input masked
C21_Witness ==
  /\ pc = "returned"
  /\ Len(batch) = 2
  /\ Len(batch[1][2]) < Len(batch[2][2])
  /\ Len(batch[1][1]) > Len(batch[2][1])
  /\ batch[2][2][Len(batch[2][2])] # PAD_IDX
  /\ collated.dec_targets[1][TargetLen] = PAD_VAL
  /\ collated.dec_inputs[2][TargetLen] # PAD_IDX
  /\ collated.enc_mask[2][EncoderLen] = 0
  /\ collated.enc_mask[1][EncoderLen] = 1

\* ------------------------------------------------------------------------
\* extract_sql_query (SpecExtract)
\* ------------------------------------------------------------------------

\* A fenced block of the text t (lt is t in lower case): the opener at p
\* in any case, its closing fence at e, no fence in between
BlockAt(t, lt, opener, p, e) ==
  /\ OccursAt(lt, p, opener)
  /\ e >= p + Len(opener)
  /\ OccursAt(t, e, Fence)
  /\ \A k \in (p + Len(opener))..(e - 1) : ~OccursAt(t, k, Fence)

HasBlock(t, lt, opener) ==
  \E p, e \in 1..Len(t) : BlockAt(t, lt, opener, p, e)

\* The result is the stripped content of the first block with this opener
\* and holds no fence
FromFirstBlock(t, lt, opener) ==
  \E p, e \in 1..Len(t) :
    /\ BlockAt(t, lt, opener, p, e)
    /\ \A q \in 1..(p - 1), f \in 1..Len(t) : ~BlockAt(t, lt, opener, q, f)
    /\ extracted_query = Strip(SubSeq(t, p + Len(opener), e - 1))
    /\ \A k \in 1..Len(extracted_query) : ~OccursAt(extracted_query, k, Fence)

\* The line starts with SELECT in any case, once stripped
SelectLine(line) == OccursAt(Upper(Strip(line)), 1, SelectWord)

\* The result is the first such line, stripped
FromFirstSelectLine(lines) ==
  \E k \in 1..Len(lines) :
    /\ SelectLine(lines[k])
    /\ \A j \in 1..(k - 1) : ~SelectLine(lines[j])
    /\ extracted_query = Strip(lines[k])

\* The priority of the heuristics on the stripped response t
InPriority(t, lt, lines) ==
  IF HasBlock(t, lt, SqlFence) THEN FromFirstBlock(t, lt, SqlFence)
  ELSE IF HasBlock(t, lt, Fence) THEN FromFirstBlock(t, lt, Fence)
  ELSE IF \E k \in 1..Len(lines) : SelectLine(lines[k])
  THEN FromFirstSelectLine(lines)
  ELSE extracted_query = t

\* C22: extract_sql_query applies its heuristics in strict priority: a
\* fenced block opened with the fence and sql, anywhere in the response,
\* wins and its stripped content is returned; otherwise the stripped content
\* of the first generic fenced block; otherwise the first line that starts
\* with SELECT in any case, stripped; otherwise the whole stripped response;
\* None gives the empty string.  A result taken from a fenced block holds no
\* triple backquote.
C22_HeuristicsInPriority ==
  pc = "returned" =>
    IF response = PyNone THEN extracted_query = <<>>
    ELSE \E t \in { Strip(response.v) } :
           \E lt \in { Lower(t) }, lines \in { SplitLines(t) } : InPriority(t, lt, lines)

\* The response holds a generic block with a query and after it a block
\* opened with sql: the content of the latter was returned
C22_Witness ==
  /\ pc = "returned"
  /\ response # PyNone
  /\ \E t \in { Strip(response.v) } : \E lt \in { Lower(t) } :
       /\ HasBlock(t, lt, SqlFence)
       /\ \E p, e \in 1..Len(t) :
            /\ BlockAt(t, lt, Fence, p, e)
            /\ OccursAt(Upper(t), p + Len(Fence), SelectWord)
            /\ \A q, f \in 1..Len(t) : BlockAt(t, lt, SqlFence, q, f) => p < q
       /\ FromFirstBlock(t, lt, SqlFence)

====
